---- MODULE Spec2Model ----
(***************************************************************************)
(* dnsm: the DNS resolution engine (DNSEngine) and the persisted record    *)
(* store (ViperYAMLManager) it is configured from.                         *)
(*                                                                         *)
(* Strings that the code inspects character by character (record names,   *)
(* query names, record values, domain names) are sequences of one-letter   *)
(* strings, so that ToLower, TrimSuffix, HasPrefix and HasSuffix are       *)
(* computed as the Go library computes them.                               *)
(***************************************************************************)
EXTENDS Integers, Sequences, FiniteSets, TLC

VARIABLES
    cDomains,    \* conf.Config.Domains: the snapshot the engine reads
    cUpstream,   \* conf.Config.Upstream: ordered upstream addresses
    pc,          \* position of the HandleRequest invocation
    req,         \* the request message: its question section
    m,           \* the reply message being built
    contacted,   \* the exchanges made: upstream list position and outcome
    upResp,      \* what ForwardRequest got from the last exchange
    writes,      \* number of WriteMsg attempts made for the request
    domainMap,   \* ViperYAMLManager.domainMap
    vOverride,   \* viper: the "domains" value set with viper.Set
    vConfig,     \* viper: the configuration as last read from the file
    file,        \* the persisted document: the file at configPath
    dotFile,     \* whether ./config.yaml exists, when configPath is another file
    cfgInDot,    \* whether configPath is ./config.yaml, the first search path
    faultsLeft,  \* number of store calls that may still meet an I/O failure
    ret,         \* the store call that is returning: operation, error, write strategy
    call,        \* a read-only call in progress: the function and its arguments
    result,      \* what the read-only call returned, as the caller holds it
    heap,        \* the backing arrays allocated so far, by address
    refs,        \* the slice header of Records of each domain of domainMap
    mu,          \* ViperYAMLManager.mu: the writer holding it and the readers
    procs,       \* the goroutines inside a store call: call, position, locals
    notify,      \* viper's watcher has an event of the configuration file to handle
    server       \* DNSEngine.server and the dns.Server objects made by Start

hostVars == <<notify, server>>
queryVars == <<cDomains, cUpstream, pc, req, m, contacted, upResp, writes>>
engineVars == <<queryVars, hostVars>>
memVars == <<heap, refs>>
lockVars == <<mu, procs>>
readVars == <<call, result, memVars, lockVars>>
storeVars == <<domainMap, vOverride, vConfig, file, dotFile, cfgInDot, faultsLeft, ret,
               readVars>>
vars == <<cDomains, cUpstream, pc, req, m, contacted, upResp, writes,
          domainMap, vOverride, vConfig, file, dotFile, cfgInDot, faultsLeft, ret,
          call, result, heap, refs, mu, procs, notify, server>>

(***************************************************************************)
(* Strings                                                                 *)
(***************************************************************************)

\* strings.ToLower, on one character
LowerChar(c) ==
    CASE c = "A" -> "a"
      [] c = "T" -> "t"
      [] c = "X" -> "x"
      [] c = "D" -> "d"
      [] OTHER -> c

ToLower(s) == [i \in 1..Len(s) |-> LowerChar(s[i])]

HasPrefix(s, p) == Len(s) >= Len(p) /\ SubSeq(s, 1, Len(p)) = p

HasSuffix(s, suf) ==
    Len(s) >= Len(suf) /\ SubSeq(s, Len(s) - Len(suf) + 1, Len(s)) = suf

\* strings.TrimSuffix: removes one trailing occurrence of suf
TrimSuffix(s, suf) ==
    IF HasSuffix(s, suf) THEN SubSeq(s, 1, Len(s) - Len(suf)) ELSE s

Dot == <<".">>
Star == <<"*">>

\* strings.ToLower(strings.TrimSuffix(x, "."))
Normalize(s) == ToLower(TrimSuffix(s, Dot))


(***************************************************************************)
(* DNSEngine.Match                                                         *)
(***************************************************************************)

\* a wildcard test on label boundaries: the suffix must start a label
Match_LabelBoundary(qname, rule) ==
    LET q == Normalize(qname)
        r == Normalize(rule)
    IN  \/ q = r
        \/ /\ HasPrefix(r, Star)
           /\ HasPrefix(Tail(r), Dot)
           /\ HasSuffix(q, Tail(r))

Match(qname, rule) ==
    LET q == Normalize(qname)
        r == Normalize(rule)
    IN  IF q = r THEN TRUE
        ELSE IF HasPrefix(r, Star) THEN HasSuffix(q, SubSeq(r, 2, Len(r)))
        ELSE FALSE

(***************************************************************************)
(* Wire constants of github.com/miekg/dns used by the engine               *)
(***************************************************************************)

TypeA == 1
TypeAAAA == 28
TypeCNAME == 5
TypeTXT == 16
RcodeSuccess == 0
RcodeServerFailure == 2

\* uint32(record.TTL): the low 32 bits of the int, kept as two 16-bit halves
Uint32(t) == [hi |-> (t \div 65536) % 65536, lo |-> t % 65536]

(***************************************************************************)
(* Record values and net.ParseIP                                           *)
(***************************************************************************)

V4a == <<"1", ".", "2", ".", "3", ".", "4">>
V4b == <<"5", ".", "6", ".", "7", ".", "8">>
V6a == <<":", ":", "1">>
V4in6 == <<":", ":", "f", "f", "f", "f", ":", "1", ".", "2", ".", "3", ".", "4">>
HostT == <<"h", ".", "t">>
HostTDot == <<"h", ".", "t", ".">>

NoIP == [ok |-> FALSE, v4 |-> <<>>, v16 |-> <<>>]

\* net.ParseIP on the literals above: ok is "ip != nil", v4 the four-byte
\* form (To4, empty when there is none), v16 the sixteen-byte form (To16),
\* each written in its canonical text
ParseIP(v) ==
    CASE v = V4a -> [ok |-> TRUE, v4 |-> V4a, v16 |-> V4in6]
      [] v = V4in6 -> [ok |-> TRUE, v4 |-> V4a, v16 |-> V4in6]
      [] v = V4b -> [ok |-> TRUE, v4 |-> V4b,
                     v16 |-> <<":", ":", "f", "f", "f", "f", ":">> \o V4b]
      [] v = V6a -> [ok |-> TRUE, v4 |-> <<>>, v16 |-> V6a]
      [] OTHER -> NoIP

To4(ip) == ip.v4
To16(ip) == ip.v16

(***************************************************************************)
(* DNSEngine.FindRecord and DNSEngine.IsDomainConfigured                   *)
(***************************************************************************)

NoRecord == [name |-> <<>>, type |-> "", value |-> <<>>, ttl |-> 0, found |-> FALSE]

Found(r) == [name |-> r.name, type |-> r.type, value |-> r.value,
             ttl |-> r.ttl, found |-> TRUE]

\* the switch of the first pass: the record's type is the queried type
ExactTypeMatch(type, qtype) ==
    \/ type = "A" /\ qtype = TypeA
    \/ type = "AAAA" /\ qtype = TypeAAAA
    \/ type = "CNAME" /\ qtype = TypeCNAME
    \/ type = "TXT" /\ qtype = TypeTXT

\* a second pass that accepts every record type the first pass accepts
WildTypeMatch_AnyType(type, qtype) == ExactTypeMatch(type, qtype)

\* the switch of the second pass: A and AAAA only
WildTypeMatch(type, qtype) ==
    \/ type = "A" /\ qtype = TypeA
    \/ type = "AAAA" /\ qtype = TypeAAAA

ExactHit(r, qname, qtype) ==
    Normalize(r.name) = Normalize(qname) /\ ExactTypeMatch(r.type, qtype)

WildHit(r, qname, qtype) ==
    HasPrefix(r.name, Star) /\ Match(qname, r.name) /\ WildTypeMatch(r.type, qtype)

\* index of the first element of a sequence of booleans that is TRUE, else 0
FirstTrue(bs) ==
    IF \E i \in 1..Len(bs) : bs[i]
    THEN CHOOSE i \in 1..Len(bs) : bs[i] /\ \A j \in 1..(i - 1) : ~bs[j]
    ELSE 0

\* an iteration that runs the wildcard pass before the exact pass
FindInDomain_WildFirst(records, qname, qtype) ==
    LET e == FirstTrue([i \in 1..Len(records) |-> ExactHit(records[i], qname, qtype)])
        w == FirstTrue([i \in 1..Len(records) |->
                          HasPrefix(records[i].name, Star)
                            /\ Match(qname, records[i].name)
                            /\ ExactTypeMatch(records[i].type, qtype)
                            /\ records[i].type \in {"A", "AAAA"}])
    IN  IF w # 0 THEN Found(records[w])
        ELSE IF e # 0 THEN Found(records[e])
        ELSE NoRecord

\* one iteration of FindRecord's outer loop: the exact pass over the
\* domain's records, then the wildcard pass over the same records
FindInDomain(records, qname, qtype) ==
    LET e == FirstTrue([i \in 1..Len(records) |-> ExactHit(records[i], qname, qtype)])
        w == FirstTrue([i \in 1..Len(records) |-> WildHit(records[i], qname, qtype)])
    IN  IF e # 0 THEN Found(records[e])
        ELSE IF w # 0 THEN Found(records[w])
        ELSE NoRecord

FindRecord(domains, qname, qtype) ==
    LET d == FirstTrue([i \in 1..Len(domains) |->
                          FindInDomain(domains[i].records, qname, qtype).found])
    IN  IF d # 0 THEN FindInDomain(domains[d].records, qname, qtype) ELSE NoRecord

\* a decision that takes only the names equal to the query for configured
IsDomainConfigured_ExactOnly(domains, qname) ==
    \E i \in 1..Len(domains) :
        \E j \in 1..Len(domains[i].records) :
            Normalize(qname) = Normalize(domains[i].records[j].name)

\* IsDomainConfigured: some record's name matches the query, as name or as
\* wildcard rule
IsDomainConfigured(domains, qname) ==
    \E i \in 1..Len(domains) :
        \E j \in 1..Len(domains[i].records) :
            Match(qname, domains[i].records[j].name)


(***************************************************************************)
(* DNSEngine.HandleRequest and DNSEngine.ForwardRequest                    *)
(***************************************************************************)

NoMsg == [rcode |-> RcodeSuccess, ra |-> FALSE, answer |-> <<>>, ns |-> <<>>,
          extra |-> <<>>]

NoResp == [kind |-> "none"]

\* m := new(dns.Msg); m.SetReply(req); m.RecursionAvailable = true
SetReply == [rcode |-> RcodeSuccess, ra |-> TRUE, answer |-> <<>>, ns |-> <<>>,
             extra |-> <<>>]

RRHeader(qname, rrtype, ttl) == [name |-> qname, rrtype |-> rrtype, ttl |-> Uint32(ttl)]

\* an answer that carries a fixed TTL instead of the record's
Synthesize_FixedTtl(record, qname, qtype) ==
    IF ExactTypeMatch(record.type, qtype)
    THEN <<[hdr |-> RRHeader(qname, qtype, 600), data |-> record.value]>>
    ELSE <<>>

\* the switch on record.Type after FindRecord found a record: the answer
\* section it leaves in m (empty when the record is dropped)
Synthesize(record, qname, qtype) ==
    LET ip == ParseIP(record.value)
    IN  CASE record.type = "A" /\ qtype = TypeA /\ ip.ok /\ To4(ip) # <<>> ->
                <<[hdr |-> RRHeader(qname, TypeA, record.ttl), data |-> To4(ip)]>>
          [] record.type = "AAAA" /\ qtype = TypeAAAA /\ ip.ok /\ To16(ip) # <<>> ->
                <<[hdr |-> RRHeader(qname, TypeAAAA, record.ttl), data |-> To16(ip)]>>
          [] record.type = "CNAME" /\ qtype = TypeCNAME ->
                <<[hdr |-> RRHeader(qname, TypeCNAME, record.ttl),
                   data |-> IF HasSuffix(record.value, Dot)
                            THEN record.value ELSE record.value \o Dot]>>
          [] record.type = "TXT" /\ qtype = TypeTXT ->
                <<[hdr |-> RRHeader(qname, TypeTXT, record.ttl),
                   data |-> record.value]>>
          [] OTHER -> <<>>

\* the messages an upstream at list position i may answer with
UpstreamMsgs(i) ==
    { [rcode |-> RcodeSuccess, answer |-> <<[from |-> i]>>, ns |-> <<>>,
       extra |-> <<[opt |-> i]>>],
      [rcode |-> RcodeServerFailure, answer |-> <<>>, ns |-> <<[soa |-> i]>>,
       extra |-> <<>>] }

\* client.Exchange: an error, a nil message without error, or a message
ExchangeOutcomes(i) ==
    {[kind |-> "err"], [kind |-> "nil"]}
        \cup {[kind |-> "msg", msg |-> r] : r \in UpstreamMsgs(i)}

\* a HandleRequest that decides on FindRecord instead of IsDomainConfigured
HandleRequest_FindFirst(question) ==
    /\ pc = "idle"
    /\ req' = question
    /\ m' = SetReply
    /\ pc' = IF Len(question) = 0 THEN "write"
             ELSE IF FindRecord(cDomains, question[1].name, question[1].qtype).found
                  THEN "find"
             ELSE "forward"
    /\ UNCHANGED <<cDomains, cUpstream, contacted, upResp, writes>>
    /\ UNCHANGED storeVars
    /\ UNCHANGED hostVars

\* HandleRequest up to and including the IsDomainConfigured decision
HandleRequest(question) ==
    /\ pc = "idle"
    /\ req' = question
    /\ m' = SetReply
    /\ pc' = IF Len(question) = 0 THEN "write"
             ELSE IF IsDomainConfigured(cDomains, question[1].name) THEN "find"
             ELSE "forward"
    /\ UNCHANGED <<cDomains, cUpstream, contacted, upResp, writes>>
    /\ UNCHANGED storeVars
    /\ UNCHANGED hostVars

\* a configured branch that reports a name error when it has no answer
LocalAnswer_NameError ==
    /\ pc = "find"
    /\ LET record == FindRecord(cDomains, req[1].name, req[1].qtype)
           answer == IF record.found
                     THEN Synthesize(record, req[1].name, req[1].qtype)
                     ELSE <<>>
       IN  m' = IF answer = <<>>
                THEN [m EXCEPT !.rcode = 3]
                ELSE [m EXCEPT !.answer = answer]
    /\ pc' = "write"
    /\ UNCHANGED <<cDomains, cUpstream, req, contacted, upResp, writes>>
    /\ UNCHANGED storeVars
    /\ UNCHANGED hostVars

\* the configured branch: FindRecord, the answer, SetRcode when none
LocalAnswer ==
    /\ pc = "find"
    /\ LET record == FindRecord(cDomains, req[1].name, req[1].qtype)
           answer == IF record.found
                     THEN Synthesize(record, req[1].name, req[1].qtype)
                     ELSE <<>>
       IN  m' = IF answer = <<>>
                THEN [m EXCEPT !.rcode = RcodeSuccess]
                ELSE [m EXCEPT !.answer = answer]
    /\ pc' = "write"
    /\ UNCHANGED <<cDomains, cUpstream, req, contacted, upResp, writes>>
    /\ UNCHANGED storeVars
    /\ UNCHANGED hostVars

\* a loop that goes on to the next upstream after a message
Exchange_KeepsGoing ==
    /\ pc = "forward"
    /\ Len(contacted) < Len(cUpstream)
    /\ LET i == Len(contacted) + 1
       IN  \E out \in ExchangeOutcomes(i) :
              /\ contacted' = Append(contacted, [i |-> i, kind |-> out.kind])
              /\ IF out.kind = "msg"
                 THEN /\ upResp' = out
                      /\ m' = [m EXCEPT !.answer = out.msg.answer,
                                        !.ns = out.msg.ns,
                                        !.extra = out.msg.extra,
                                        !.rcode = out.msg.rcode]
                      /\ pc' = IF i = Len(cUpstream) THEN "write" ELSE "forward"
                 ELSE /\ upResp' = upResp
                      /\ m' = m
                      /\ pc' = "forward"
    /\ UNCHANGED <<cDomains, cUpstream, req, writes>>
    /\ UNCHANGED storeVars
    /\ UNCHANGED hostVars

\* a loop that takes a message with an error response code for a failure
Exchange_FailoverOnErrorRcode ==
    /\ pc = "forward"
    /\ Len(contacted) < Len(cUpstream)
    /\ LET i == Len(contacted) + 1
       IN  \E out \in ExchangeOutcomes(i) :
              /\ contacted' = Append(contacted, [i |-> i, kind |-> out.kind])
              /\ IF out.kind = "msg" /\ out.msg.rcode = RcodeSuccess
                 THEN /\ upResp' = out
                      /\ m' = [m EXCEPT !.answer = out.msg.answer,
                                        !.ns = out.msg.ns,
                                        !.extra = out.msg.extra,
                                        !.rcode = out.msg.rcode]
                      /\ pc' = "write"
                 ELSE /\ upResp' = upResp
                      /\ m' = m
                      /\ pc' = "forward"
    /\ UNCHANGED <<cDomains, cUpstream, req, writes>>
    /\ UNCHANGED storeVars
    /\ UNCHANGED hostVars

\* one iteration of ForwardRequest's loop; on a message, ForwardRequest
\* returns it and HandleRequest copies its sections and response code
Exchange ==
    /\ pc = "forward"
    /\ Len(contacted) < Len(cUpstream)
    /\ LET i == Len(contacted) + 1
       IN  \E out \in ExchangeOutcomes(i) :
              /\ contacted' = Append(contacted, [i |-> i, kind |-> out.kind])
              /\ IF out.kind = "msg"
                 THEN /\ upResp' = out
                      /\ m' = [m EXCEPT !.answer = out.msg.answer,
                                        !.ns = out.msg.ns,
                                        !.extra = out.msg.extra,
                                        !.rcode = out.msg.rcode]
                      /\ pc' = "write"
                 ELSE /\ upResp' = upResp
                      /\ m' = m
                      /\ pc' = "forward"
    /\ UNCHANGED <<cDomains, cUpstream, req, writes>>
    /\ UNCHANGED storeVars
    /\ UNCHANGED hostVars

\* a failure branch that leaves recursion-available set
ForwardFailed_KeepsRA ==
    /\ pc = "forward"
    /\ Len(contacted) = Len(cUpstream)
    /\ upResp' = [kind |-> "error"]
    /\ m' = [m EXCEPT !.rcode = RcodeServerFailure]
    /\ pc' = "write"
    /\ UNCHANGED <<cDomains, cUpstream, req, contacted, writes>>
    /\ UNCHANGED storeVars
    /\ UNCHANGED hostVars

\* the loop ends without a message: ForwardRequest returns an error
ForwardFailed ==
    /\ pc = "forward"
    /\ Len(contacted) = Len(cUpstream)
    /\ upResp' = [kind |-> "error"]
    /\ m' = [m EXCEPT !.rcode = RcodeServerFailure, !.ra = FALSE]
    /\ pc' = "write"
    /\ UNCHANGED <<cDomains, cUpstream, req, contacted, writes>>
    /\ UNCHANGED storeVars
    /\ UNCHANGED hostVars

\* a write that is tried a second time when it fails
WriteMsg_RetryOnce ==
    /\ pc = "write"
    /\ \E ok \in BOOLEAN :
          /\ writes' = Append(writes, ok)
          /\ pc' = IF ok \/ Len(writes) = 1 THEN "done" ELSE "write"
    /\ UNCHANGED <<cDomains, cUpstream, req, m, contacted, upResp>>
    /\ UNCHANGED storeVars
    /\ UNCHANGED hostVars

\* w.WriteMsg(m): one attempt, its error logged or ignored
WriteMsg ==
    /\ pc = "write"
    /\ \E ok \in BOOLEAN : writes' = Append(writes, ok)
    /\ pc' = "done"
    /\ UNCHANGED <<cDomains, cUpstream, req, m, contacted, upResp>>
    /\ UNCHANGED storeVars
    /\ UNCHANGED hostVars

\* HandleRequest has returned; the server takes the next datagram
Return ==
    /\ pc = "done"
    /\ pc' = "idle"
    /\ req' = <<>>
    /\ m' = NoMsg
    /\ contacted' = <<>>
    /\ upResp' = NoResp
    /\ writes' = <<>>
    /\ UNCHANGED <<cDomains, cUpstream>>
    /\ UNCHANGED storeVars
    /\ UNCHANGED hostVars


(***************************************************************************)
(* The persisted document and viper's view of it                           *)
(***************************************************************************)

\* a readable document: its domains list, and whether its other sections
\* are nested maps (as viper writes them) or flat dotted keys (as the raw
\* re-serialization of AllKeys writes them)
Doc(domains, shape) == [state |-> "ok", domains |-> domains, shape |-> shape]
AbsentDoc == [state |-> "absent", domains |-> <<>>, shape |-> "none"]
\* a truncated or partly written file
CorruptDoc == [state |-> "corrupt", domains |-> <<>>, shape |-> "none"]

NoOverride == [set |-> FALSE, domains |-> <<>>]

\* the sections of the document other than the domain list, as the values
\* found at each key path; a key is written as the sequence of the parts
\* that dots separate in it
Sections ==
    ( << <<"server">>, <<"host">> >> :> "0.0.0.0" ) @@
    ( << <<"server">>, <<"port">> >> :> "53" ) @@
    ( << <<"upstream">> >> :> "223.5.5.5:53 223.6.6.6:53" ) @@
    ( << <<"jwt">>, <<"secret_key">> >> :> "k" ) @@
    ( << <<"gin">>, <<"mode">> >> :> "release" ) @@
    ( << <<"login">>, <<"username">> >> :> "admin" )

\* a key of viper.AllKeys(): the keys of the path joined with "."
RECURSIVE DottedKey(_)
DottedKey(path) ==
    IF path = <<>> THEN <<>> ELSE Head(path) \o DottedKey(Tail(path))

\* "allConfig[key] = m.viper.Get(key)" over viper.AllKeys(), encoded as
\* YAML: every value stands at a top-level key, the dotted one
RawEncode(sections) ==
    [p \in {<<DottedKey(q)>> : q \in DOMAIN sections} |->
        sections[CHOOSE q \in DOMAIN sections : <<DottedKey(q)>> = p]]

\* the sections other than the domain list that a document holds
SectionsOf(doc) ==
    CASE doc.state # "ok" -> << >>
      [] doc.shape = "flat" -> RawEncode(Sections)
      [] OTHER -> Sections

\* viper.Get("domains"): a value given to viper.Set shadows the file's
ViperDomains == IF vOverride.set THEN vOverride.domains ELSE vConfig.domains

\* the loop "m.domainMap[domain.Name] = domain" over a domains list
AsMap(domains) ==
    LET names == {domains[i].name : i \in 1..Len(domains)}
        last(n) == CHOOSE i \in 1..Len(domains) :
                      /\ domains[i].name = n
                      /\ \A j \in (i + 1)..Len(domains) : domains[j].name # n
    IN  [n \in names |-> domains[last(n)].records]

\* the lists "for _, domain := range m.domainMap" can build: Go ranges over
\* a map in an unspecified order
Orderings(dm) ==
    LET n == Cardinality(DOMAIN dm)
    IN  { [i \in 1..n |-> [name |-> f[i], records |-> dm[f[i]]]] :
            f \in {g \in [1..n -> DOMAIN dm] : \A i, j \in 1..n : g[i] = g[j] => i = j} }

\* what the I/O of one updateDomainsNode call does: w1 viper.WriteConfig,
\* w2 viper.SafeWriteConfig (when the file it would create is absent),
\* w3 the raw write, r viper.ReadInConfig; "partial" is a failure after the
\* file has been truncated.  A step that is not reached is written "ok".
Scenario(w1, w2, w3, r) == [w1 |-> w1, w2 |-> w2, w3 |-> w3, r |-> r]

NoFault == Scenario("ok", "ok", "ok", "ok")

Scenarios ==
    {NoFault, Scenario("ok", "ok", "ok", "fail")}
        \cup {Scenario(w1, "ok", "ok", r) : w1 \in {"fail", "partial"}, r \in {"ok", "fail"}}
        \cup {Scenario(w1, "fail", "ok", r) : w1 \in {"fail", "partial"}, r \in {"ok", "fail"}}
        \cup {Scenario(w1, "fail", w3, "ok") : w1 \in {"fail", "partial"}, w3 \in {"fail", "partial"}}

\* updateDomainsNode on the list `domains` built from the domain map:
\* viper.Set, then WriteConfig, else SafeWriteConfig, else the raw write to
\* configPath, then ReadInConfig.  WriteConfig and ReadInConfig use the
\* file viper found at start (configPath); SafeWriteConfig creates
\* config.yaml in the first search path, ".", which is configPath only when
\* cfgInDot, and fails when that file exists.
updateDomainsNode(domains, sc) ==
    LET f1 == CASE sc.w1 = "ok" -> Doc(domains, "nested")
                [] sc.w1 = "partial" -> CorruptDoc
                [] OTHER -> file
        safeAbsent == IF cfgInDot THEN f1.state = "absent" ELSE dotFile = "absent"
        safeOk == sc.w1 # "ok" /\ safeAbsent /\ sc.w2 = "ok"
        f2 == IF safeOk /\ cfgInDot THEN Doc(domains, "nested") ELSE f1
        d2 == IF safeOk /\ ~cfgInDot THEN "present" ELSE dotFile
        rawTried == sc.w1 # "ok" /\ ~safeOk
        f3 == IF ~rawTried THEN f2
              ELSE CASE sc.w3 = "ok" -> Doc(domains, "flat")
                     [] sc.w3 = "partial" -> CorruptDoc
                     [] OTHER -> f2
        written == sc.w1 = "ok" \/ safeOk \/ (rawTried /\ sc.w3 = "ok")
        readOk == written /\ f3.state = "ok" /\ sc.r = "ok"
    IN  [ file |-> f3,
          dotFile |-> d2,
          vOverride |-> [set |-> TRUE, domains |-> domains],
          vConfig |-> IF readOk THEN [domains |-> f3.domains, shape |-> f3.shape]
                      ELSE vConfig,
          err |-> IF ~written THEN "persist"
                  ELSE IF readOk THEN "none" ELSE "read",
          how |-> CASE sc.w1 = "ok" -> "WriteConfig"
                    [] safeOk -> "SafeWriteConfig"
                    [] rawTried /\ sc.w3 = "ok" -> "raw"
                    [] OTHER -> "failed" ]

(***************************************************************************)
(* ViperYAMLManager                                                        *)
(***************************************************************************)

MaxRecords == 2
MaxFaultyCalls == 1

Call(op) == [op |-> op, err |-> "none", how |-> "none"]

NoCall == Call("none")

\* no read-only call is in progress
NoRead == [fn |-> "none"]

\* number of records held by a domain map
RECURSIVE Size(_)
Size(dm) ==
    IF DOMAIN dm = {} THEN 0
    ELSE LET n == CHOOSE x \in DOMAIN dm : TRUE
         IN  Len(dm[n]) + Size([x \in DOMAIN dm \ {n} |-> dm[x]])

\* a call that returns an error before it changes anything
Reject(op, err) ==
    /\ ret = NoCall
    /\ ret' = [Call(op) EXCEPT !.err = err]
    /\ UNCHANGED <<domainMap, vOverride, vConfig, file, dotFile, cfgInDot, faultsLeft>>
    /\ UNCHANGED readVars

\* "m.domainMap[...] = ...; return m.updateDomainsNode()"
CommitStore(op, dm) ==
    /\ ret = NoCall
    /\ Size(dm) <= MaxRecords
    /\ domainMap' = dm
    /\ \E domains \in Orderings(dm) :
        \E sc \in IF faultsLeft > 0 THEN Scenarios ELSE {NoFault} :
          /\ faultsLeft' = IF sc = NoFault THEN faultsLeft ELSE faultsLeft - 1
          /\ LET p == updateDomainsNode(domains, sc)
             IN  /\ file' = p.file
                 /\ dotFile' = p.dotFile
                 /\ vOverride' = p.vOverride
                 /\ vConfig' = p.vConfig
                 /\ ret' = [Call(op) EXCEPT !.err = p.err, !.how = p.how]
    /\ UNCHANGED cfgInDot

\* the same, seen without the backing arrays of the record lists
Commit(op, dm) ==
    /\ CommitStore(op, dm)
    /\ UNCHANGED readVars

Put(dm, name, records) ==
    [n \in DOMAIN dm \cup {name} |-> IF n = name THEN records ELSE dm[n]]

Remove(dm, name) == [n \in DOMAIN dm \ {name} |-> dm[n]]

\* a duplicate check that also compares the values
HasPair_ValueToo(records, record) ==
    \E i \in 1..Len(records) :
        /\ records[i].name = record.name
        /\ records[i].type = record.type
        /\ records[i].value = record.value

\* the duplicate check of AddRecord: same name and same type
HasPair(records, record) ==
    \E i \in 1..Len(records) :
        records[i].name = record.name /\ records[i].type = record.type

HasName(records, recordName) ==
    \E i \in 1..Len(records) : records[i].name = recordName

\* a filter that drops the first record of that name only
WithoutName_FirstOnly(records, recordName) ==
    LET i == FirstTrue([k \in 1..Len(records) |-> records[k].name = recordName])
    IN  IF i = 0 THEN records
        ELSE SubSeq(records, 1, i - 1) \o SubSeq(records, i + 1, Len(records))

\* the filter loop of DeleteRecord
RECURSIVE WithoutName(_, _)
WithoutName(records, recordName) ==
    IF records = <<>> THEN <<>>
    ELSE IF Head(records).name # recordName
         THEN <<Head(records)>> \o WithoutName(Tail(records), recordName)
         ELSE WithoutName(Tail(records), recordName)

\* the update loop of UpdateRecord: the first record of that name, then break
\* a replacement of every record of that name
ReplaceFirst_EveryMatch(records, recordName, newRecord) ==
    [k \in 1..Len(records) |->
        IF records[k].name = recordName THEN newRecord ELSE records[k]]

ReplaceFirst(records, recordName, newRecord) ==
    LET i == FirstTrue([k \in 1..Len(records) |-> records[k].name = recordName])
    IN  [records EXCEPT ![i] = newRecord]

Load ==
    /\ IF file.state # "ok"
       THEN /\ ret' = [Call("Load") EXCEPT !.err = "load"]
            /\ domainMap' = domainMap
       ELSE /\ ret' = Call("Load")
            /\ domainMap' = AsMap(ViperDomains)
    /\ UNCHANGED <<vOverride, vConfig, file, dotFile, cfgInDot, faultsLeft>>
    /\ UNCHANGED readVars
    /\ UNCHANGED engineVars

\* an AddOrUpdateDomain that adds the records to those the domain holds
AddOrUpdateDomain_Merge(domain) ==
    /\ IF domain.name = <<>>
       THEN Reject("AddOrUpdateDomain", "validation")
       ELSE Commit("AddOrUpdateDomain",
                   Put(domainMap, domain.name,
                       IF domain.name \in DOMAIN domainMap
                       THEN domainMap[domain.name] \o domain.records
                       ELSE domain.records))
    /\ UNCHANGED engineVars

AddOrUpdateDomain(domain) ==
    /\ IF domain.name = <<>>
       THEN Reject("AddOrUpdateDomain", "validation")
       ELSE Commit("AddOrUpdateDomain", Put(domainMap, domain.name, domain.records))
    /\ UNCHANGED engineVars

DeleteDomain(domainName) ==
    /\ IF domainName \notin DOMAIN domainMap
       THEN Reject("DeleteDomain", "notfound")
       ELSE Commit("DeleteDomain", Remove(domainMap, domainName))
    /\ UNCHANGED engineVars

AddRecord(domainName, record) ==
    /\ IF domainName \notin DOMAIN domainMap
       THEN Reject("AddRecord", "notfound")
       ELSE IF HasPair(domainMap[domainName], record)
       THEN Reject("AddRecord", "conflict")
       ELSE Commit("AddRecord", Put(domainMap, domainName,
                                    Append(domainMap[domainName], record)))
    /\ UNCHANGED engineVars

UpdateRecord(domainName, recordName, newRecord) ==
    /\ IF domainName \notin DOMAIN domainMap
       THEN Reject("UpdateRecord", "notfound")
       ELSE IF ~HasName(domainMap[domainName], recordName)
       THEN Reject("UpdateRecord", "notfound")
       ELSE Commit("UpdateRecord",
                   Put(domainMap, domainName,
                       ReplaceFirst(domainMap[domainName], recordName, newRecord)))
    /\ UNCHANGED engineVars

\* a DeleteRecord that does not test whether a record was found
DeleteRecord_NoFoundCheck(domainName, recordName) ==
    /\ IF domainName \notin DOMAIN domainMap
       THEN Reject("DeleteRecord", "notfound")
       ELSE Commit("DeleteRecord",
                   Put(domainMap, domainName,
                       WithoutName(domainMap[domainName], recordName)))
    /\ UNCHANGED engineVars

DeleteRecord(domainName, recordName) ==
    /\ IF domainName \notin DOMAIN domainMap
       THEN Reject("DeleteRecord", "notfound")
       ELSE IF ~HasName(domainMap[domainName], recordName)
       THEN Reject("DeleteRecord", "notfound")
       ELSE Commit("DeleteRecord",
                   Put(domainMap, domainName,
                       WithoutName(domainMap[domainName], recordName)))
    /\ UNCHANGED engineVars

\* the call returns to the management layer
ReturnToCaller ==
    /\ ret # NoCall
    /\ ret' = NoCall
    /\ UNCHANGED <<domainMap, vOverride, vConfig, file, dotFile, cfgInDot, faultsLeft>>
    /\ UNCHANGED readVars
    /\ UNCHANGED engineVars

(***************************************************************************)
(* ViperYAMLManager.ListDomainsWithPagination                              *)
(***************************************************************************)

\* Go's int: 64 bits, two's complement, written as four 16-bit limbs, the
\* lowest first.  GoInt(n) is the int of value n, for 0 <= n < 2^31.
GoInt(n) == <<n % 65536, (n \div 65536) % 65536, 0, 0>>

MinusOne == <<65535, 65535, 65535, 65535>>

\* math.MaxInt64
MaxInt == <<65535, 65535, 65535, 32767>>

IsNegative(x) == x[4] >= 32768

\* x + y, wrapping modulo 2^64
AddInt(x, y) ==
    LET s1 == x[1] + y[1]
        s2 == x[2] + y[2] + (s1 \div 65536)
        s3 == x[3] + y[3] + (s2 \div 65536)
        s4 == x[4] + y[4] + (s3 \div 65536)
    IN  <<s1 % 65536, s2 % 65536, s3 % 65536, s4 % 65536>>

\* x * k for an int k with 0 <= k <= 100, wrapping modulo 2^64
MulInt(x, k) ==
    LET p1 == x[1] * k
        p2 == x[2] * k + (p1 \div 65536)
        p3 == x[3] * k + (p2 \div 65536)
        p4 == x[4] * k + (p3 \div 65536)
    IN  <<p1 % 65536, p2 % 65536, p3 % 65536, p4 % 65536>>

\* the value of an int x with 0 <= x < 2^30
ToNat(x) == x[1] + 65536 * x[2]

\* x >= n, for an int n with 0 <= n < 2^30
AtLeast(x, n) ==
    /\ ~IsNegative(x)
    /\ \/ x[4] # 0
       \/ x[3] # 0
       \/ x[2] >= 16384
       \/ ToNat(x) >= n

\* byte order of the characters that occur in domain names
CharRank(c) ==
    CASE c = "*" -> 1 [] c = "." -> 2 [] c = "D" -> 3 [] c = "a" -> 4
      [] c = "d" -> 5 [] c = "e" -> 6 [] OTHER -> 7

\* a < b on strings
RECURSIVE StringLess(_, _)
StringLess(a, b) ==
    IF b = <<>> THEN FALSE
    ELSE IF a = <<>> THEN TRUE
    ELSE IF Head(a) # Head(b) THEN CharRank(Head(a)) < CharRank(Head(b))
    ELSE StringLess(Tail(a), Tail(b))

\* the DomainInfo values built from the domain map
DomainInfos ==
    {[name |-> n, record_count |-> Len(domainMap[n])] : n \in DOMAIN domainMap}

\* sort.Slice by lower-cased name: the orders it may leave the list in (the
\* sort is not stable and the list comes from a map range)
SortSlice(infos) ==
    LET n == Cardinality(infos)
    IN  { l \in [1..n -> infos] :
            /\ \A i, j \in 1..n : l[i] = l[j] => i = j
            /\ \A i, j \in 1..n :
                  i < j => ~StringLess(ToLower(l[j].name), ToLower(l[i].name)) }

\* the results ListDomainsWithPagination(page, pageSize) may return; a
\* slice expression with a negative bound panics
ListDomainsWithPagination(page, pageSize) ==
    LET pg == IF IsNegative(page) \/ page = GoInt(0) THEN GoInt(1) ELSE page
        ps == IF pageSize < 1 \/ pageSize > 100 THEN 20 ELSE pageSize
        total == Cardinality(DOMAIN domainMap)
        start == MulInt(AddInt(pg, MinusOne), ps)
        end == AddInt(start, GoInt(ps))
    IN  IF AtLeast(start, total)
        THEN {[kind |-> "ok", total |-> total, domains |-> <<>>]}
        ELSE IF IsNegative(start)
        THEN {[kind |-> "panic"]}
        ELSE { [kind |-> "ok", total |-> total,
                domains |-> SubSeq(l, ToNat(start) + 1,
                                   IF AtLeast(end, total + 1) THEN total
                                   ELSE ToNat(end))] :
                 l \in SortSlice(DomainInfos) }

\* a call of ListDomainsWithPagination returns, or panics
CallListDomainsWithPagination ==
    /\ call.fn = "ListDomainsWithPagination"
    /\ result = NoRead
    /\ \E r \in ListDomainsWithPagination(call.page, call.pageSize) :
          result' = [fn |-> "ListDomainsWithPagination", value |-> r]
    /\ UNCHANGED <<call, domainMap, vOverride, vConfig, file, dotFile, cfgInDot,
                   faultsLeft, ret>>
    /\ UNCHANGED memVars
    /\ UNCHANGED lockVars
    /\ UNCHANGED engineVars

(***************************************************************************)
(* The record lists as Go slices: GetDomain, GetRecords, ListDomains and   *)
(* the mutators seen with the backing arrays they read and write           *)
(***************************************************************************)

MaxArrays == 4

\* a slice header: the address of the backing array (0 for a nil slice) and
\* the length; the capacity is the length of the backing array
Slice(arr, len) == [arr |-> arr, len |-> len]

NilSlice == Slice(0, 0)

Cap(h) == IF h.arr = 0 THEN 0 ELSE Len(heap[h.arr])

\* the elements of a slice
Elems(mem, h) == IF h.arr = 0 THEN <<>> ELSE SubSeq(mem[h.arr], 1, h.len)

\* the zero value that fills the unused capacity of an array (a cell of it
\* is written before it is read)
ZeroRecord == [name |-> <<>>, type |-> "", value |-> <<>>, ttl |-> 0]

Zeros(n) == [i \in 1..n |-> ZeroRecord]

\* the addresses no array lives at, and the one the next allocation takes
Free == (1..MaxArrays) \ DOMAIN heap

NewAddr == CHOOSE a \in Free : \A b \in Free : a <= b

Alloc(content) == [a \in DOMAIN heap \cup {NewAddr} |->
                      IF a = NewAddr THEN content ELSE heap[a]]

\* the garbage collector: only the arrays a slice of the store or of the
\* caller refers to stay
Collect(mem, rf, held) ==
    LET live == {rf[n].arr : n \in DOMAIN rf}
                  \cup (IF "slice" \in DOMAIN held THEN {held.slice.arr} ELSE {})
    IN  [a \in DOMAIN mem \cap live |-> mem[a]]

\* capacity of the array that append allocates for a full slice of this
\* capacity
GrownCap(cap) == IF cap = 0 THEN 1 ELSE 2 * cap

\* append(h, x): the heap and the slice header it leaves
AppendSlice(h, x) ==
    IF h.len < Cap(h)
    THEN [heap |-> [heap EXCEPT ![h.arr][h.len + 1] = x],
          slice |-> Slice(h.arr, h.len + 1)]
    ELSE [heap |-> Alloc(Elems(heap, h) \o <<x>>
                           \o Zeros(GrownCap(Cap(h)) - h.len - 1)),
          slice |-> Slice(NewAddr, h.len + 1)]

\* what the store's readers see: the records of every domain
StoreReads(mem, rf) == [n \in DOMAIN rf |-> Elems(mem, rf[n])]

\* the caller holds a slice returned by the store
Holding ==
    /\ result.fn \in {"GetDomain", "GetRecords", "ListDomains",
                      "ListDomainsWithPagination"}
    /\ result.err = "none"

\* a read that hands out the slice the map holds
CopyOfRecords_Shared(h) == [heap |-> heap, slice |-> h]

\* the copy of GetDomain and GetRecords:
\* make([]Record, len(domain.Records)); copy(...)
CopyOfRecords(h) == [heap |-> Alloc(Elems(heap, h)), slice |-> Slice(NewAddr, h.len)]

\* GetDomain and GetRecords
CopyOut(fn, domainName) ==
    /\ result = NoRead
    /\ ret = NoCall
    /\ IF domainName \notin DOMAIN refs
       THEN /\ result' = [fn |-> fn, err |-> "notfound"]
            /\ heap' = heap
       ELSE /\ Free # {}
            /\ result' = [fn |-> fn, err |-> "none",
                          slice |-> CopyOfRecords(refs[domainName]).slice,
                          value |-> Elems(heap, refs[domainName])]
            /\ heap' = CopyOfRecords(refs[domainName]).heap
    /\ call' = [fn |-> fn, domainName |-> domainName]
    /\ UNCHANGED <<refs, domainMap, vOverride, vConfig, file, dotFile, cfgInDot,
                   faultsLeft, ret>>
    /\ UNCHANGED lockVars
    /\ UNCHANGED engineVars

GetDomain(domainName) == CopyOut("GetDomain", domainName)

GetRecords(domainName) == CopyOut("GetRecords", domainName)

\* ListDomains: a new slice of the names, in the order of the map range
ListDomains ==
    /\ result = NoRead
    /\ ret = NoCall
    /\ Free # {}
    /\ \E names \in {[i \in 1..Len(l) |-> l[i].name] : l \in Orderings(refs)} :
          /\ heap' = Alloc(names)
          /\ result' = [fn |-> "ListDomains", err |-> "none",
                        slice |-> Slice(NewAddr, Len(names)),
                        value |-> names]
    /\ call' = [fn |-> "ListDomains"]
    /\ UNCHANGED <<refs, domainMap, vOverride, vConfig, file, dotFile, cfgInDot,
                   faultsLeft, ret>>
    /\ UNCHANGED lockVars
    /\ UNCHANGED engineVars

\* ListDomainsWithPagination(1, pageSize): domainInfos[0:end], a slice of the
\* new array that was sorted
ListFirstPage(pageSize) ==
    /\ result = NoRead
    /\ ret = NoCall
    /\ Free # {}
    /\ \E l \in SortSlice(DomainInfos) :
          LET end == IF pageSize > Len(l) THEN Len(l) ELSE pageSize
          IN  /\ heap' = Alloc(l)
              /\ result' = [fn |-> "ListDomainsWithPagination", err |-> "none",
                            slice |-> Slice(NewAddr, end),
                            value |-> SubSeq(l, 1, end)]
    /\ call' = [fn |-> "ListDomainsWithPagination", pageSize |-> pageSize]
    /\ UNCHANGED <<refs, domainMap, vOverride, vConfig, file, dotFile, cfgInDot,
                   faultsLeft, ret>>
    /\ UNCHANGED lockVars
    /\ UNCHANGED engineVars

\* the caller overwrites an element of the slice it holds
CallerWrites(i, x) ==
    /\ Holding
    /\ i \in 1..result.slice.len
    /\ heap' = [heap EXCEPT ![result.slice.arr][i] = x]
    /\ result' = [result EXCEPT !.value[i] = x]
    /\ UNCHANGED <<call, refs, domainMap, vOverride, vConfig, file, dotFile, cfgInDot,
                   faultsLeft, ret>>
    /\ UNCHANGED lockVars
    /\ UNCHANGED engineVars

\* the caller appends to the slice it holds
CallerAppends(x) ==
    /\ Holding
    /\ result.slice.len < MaxRecords
    /\ Free # {}
    /\ result' = [result EXCEPT !.slice = AppendSlice(result.slice, x).slice,
                                !.value = Append(result.value, x)]
    /\ heap' = Collect(AppendSlice(result.slice, x).heap, refs, result')
    /\ UNCHANGED <<call, refs, domainMap, vOverride, vConfig, file, dotFile, cfgInDot,
                   faultsLeft, ret>>
    /\ UNCHANGED lockVars
    /\ UNCHANGED engineVars

\* the caller truncates the slice it holds by one element
CallerTruncates ==
    /\ Holding
    /\ result.slice.len > 0
    /\ result' = [result EXCEPT !.slice.len = result.slice.len - 1,
                                !.value = SubSeq(result.value, 1, result.slice.len - 1)]
    /\ UNCHANGED <<call, heap, refs, domainMap, vOverride, vConfig, file, dotFile,
                   cfgInDot, faultsLeft, ret>>
    /\ UNCHANGED lockVars
    /\ UNCHANGED engineVars

\* the caller drops the value it holds
CallerDrops ==
    /\ result # NoRead
    /\ call' = NoRead
    /\ result' = NoRead
    /\ heap' = Collect(heap, refs, NoRead)
    /\ UNCHANGED <<refs, domainMap, vOverride, vConfig, file, dotFile,
                   cfgInDot, faultsLeft, ret>>
    /\ UNCHANGED lockVars
    /\ UNCHANGED engineVars

\* AddOrUpdateDomain with a non-empty name: the map takes the caller's
\* domain value, whose Records slice comes with its own backing array
AddOrUpdateDomainInMemory(domain) ==
    /\ domain.name # <<>>
    /\ Free # {}
    /\ refs' = Put(refs, domain.name,
                   IF domain.records = <<>> THEN NilSlice
                   ELSE Slice(NewAddr, Len(domain.records)))
    /\ heap' = Collect(IF domain.records = <<>> THEN heap ELSE Alloc(domain.records),
                       refs', result)
    /\ CommitStore("AddOrUpdateDomain", Put(domainMap, domain.name, domain.records))
    /\ UNCHANGED <<call, result>>
    /\ UNCHANGED lockVars
    /\ UNCHANGED engineVars

DeleteDomainInMemory(domainName) ==
    /\ domainName \in DOMAIN refs
    /\ refs' = Remove(refs, domainName)
    /\ heap' = Collect(heap, refs', result)
    /\ CommitStore("DeleteDomain", Remove(domainMap, domainName))
    /\ UNCHANGED <<call, result>>
    /\ UNCHANGED lockVars
    /\ UNCHANGED engineVars

\* AddRecord past its checks: domain.Records = append(domain.Records, record)
AddRecordInMemory(domainName, record) ==
    /\ domainName \in DOMAIN refs
    /\ ~HasPair(Elems(heap, refs[domainName]), record)
    /\ Free # {}
    /\ refs' = [refs EXCEPT ![domainName] = AppendSlice(refs[domainName], record).slice]
    /\ heap' = Collect(AppendSlice(refs[domainName], record).heap, refs', result)
    /\ CommitStore("AddRecord", Put(domainMap, domainName,
                                    Append(domainMap[domainName], record)))
    /\ UNCHANGED <<call, result>>
    /\ UNCHANGED lockVars
    /\ UNCHANGED engineVars

\* UpdateRecord past its checks: domain.Records[i] = newRecord, in place
UpdateRecordInMemory(domainName, recordName, newRecord) ==
    /\ domainName \in DOMAIN refs
    /\ HasName(Elems(heap, refs[domainName]), recordName)
    /\ LET h == refs[domainName]
           i == FirstTrue([k \in 1..h.len |-> heap[h.arr][k].name = recordName])
       IN  heap' = [heap EXCEPT ![h.arr][i] = newRecord]
    /\ refs' = refs
    /\ CommitStore("UpdateRecord",
                   Put(domainMap, domainName,
                       ReplaceFirst(domainMap[domainName], recordName, newRecord)))
    /\ UNCHANGED <<call, result>>
    /\ UNCHANGED lockVars
    /\ UNCHANGED engineVars

\* DeleteRecord past its checks: the kept records go to a new array of the
\* old length
DeleteRecordInMemory(domainName, recordName) ==
    /\ domainName \in DOMAIN refs
    /\ HasName(Elems(heap, refs[domainName]), recordName)
    /\ Free # {}
    /\ LET old == Elems(heap, refs[domainName])
           kept == WithoutName(old, recordName)
       IN  /\ refs' = [refs EXCEPT ![domainName] = Slice(NewAddr, Len(kept))]
           /\ heap' = Collect(Alloc(kept \o Zeros(Len(old) - Len(kept))), refs', result)
    /\ CommitStore("DeleteRecord",
                   Put(domainMap, domainName,
                       WithoutName(domainMap[domainName], recordName)))
    /\ UNCHANGED <<call, result>>
    /\ UNCHANGED lockVars
    /\ UNCHANGED engineVars

(***************************************************************************)
(* Bounded inputs of the engine                                            *)
(***************************************************************************)

MaxSnapRecords == 2
MaxUpstreams == 2

NameAT == <<"a", ".", "t">>
NameATDot == <<"A", ".", "t", ".">>
WildT == <<"*", ".", "t">>
NameXAT == <<"x", "a", ".", "t">>
NameT == <<"t">>
NameBU == <<"b", ".", "u">>

Rec(name, type, value, ttl) ==
    [name |-> name, type |-> type, value |-> value, ttl |-> ttl]

SnapRecords ==
    { Rec(NameAT, "A", V4a, 300),
      Rec(NameATDot, "A", V4b, -1),
      Rec(NameAT, "A", HostT, 300),
      Rec(NameAT, "A", V4in6, 300),
      Rec(NameAT, "CNAME", HostT, 300),
      Rec(WildT, "A", V4a, 300),
      Rec(WildT, "AAAA", V6a, 300),
      Rec(WildT, "CNAME", HostT, 300),
      Rec(WildT, "TXT", HostT, 300),
      Rec(WildT, "A", V6a, 300),
      Rec(WildT, "AAAA", V4a, 300) }

SeqsUpTo(S, n) == UNION {[1..k -> S] : k \in 0..n}

DomD == <<"d">>
DomE == <<"e">>

\* a snapshot of two domains holding the records rs, the first k in one
\* domain and the rest in the other
TwoDomains(rs, k) ==
    << [name |-> DomD, records |-> SubSeq(rs, 1, k)],
       [name |-> DomE, records |-> SubSeq(rs, k + 1, Len(rs))] >>

Snapshots ==
    UNION { {TwoDomains(rs, k) : k \in 0..Len(rs)} :
                rs \in SeqsUpTo(SnapRecords, MaxSnapRecords) }

QNames == {NameAT, NameATDot, WildT, NameXAT, NameT, NameBU}
QTypes == {TypeA, TypeAAAA, TypeCNAME, TypeTXT, 15}

Questions == {<<>>} \cup {<<[name |-> n, qtype |-> t]>> : n \in QNames, t \in QTypes}

UpstreamAddrs == <<"223.5.5.5:53", "223.6.6.6:53", "8.8.8.8:53", "1.1.1.1:53">>

(***************************************************************************)
(* Bounded inputs of the store                                             *)
(***************************************************************************)

StoreNames == {<<>>, DomD, DomE}

StoreRecords ==
    { Rec(NameAT, "A", V4a, 300),
      Rec(NameAT, "A", V4b, 300),
      Rec(WildT, "TXT", HostT, 300) }

RecordNames == {NameAT, WildT, NameBU}

StoreDomains ==
    { [name |-> n, records |-> rs] :
        n \in StoreNames, rs \in SeqsUpTo(StoreRecords, MaxRecords) }

\* the documents the process may be started on
InitDocs ==
    { <<>>,
      <<[name |-> DomD, records |-> <<Rec(WildT, "TXT", HostT, 300)>>],
        [name |-> DomE, records |-> <<>>]>> }

\* svc.NewSvcContext: conf.New reads the document into viper and into the
\* snapshot, then DNSManager.Load builds the domain map
InitStoreOn(domains) ==
    /\ file = Doc(domains, "nested")
    /\ dotFile = "absent"
    /\ vConfig = [domains |-> domains, shape |-> "nested"]
    /\ vOverride = NoOverride
    /\ domainMap = AsMap(domains)
    /\ ret = NoCall

\* the backing arrays are left out of the picture
InitNoMem ==
    /\ heap = <<>>
    /\ refs = << >>

\* the lock is free and no goroutine is followed inside a store call
InitUnlocked ==
    /\ mu = [w |-> 0, r |-> {}]
    /\ procs = <<>>

InitNoRead ==
    /\ call = NoRead
    /\ result = NoRead
    /\ InitNoMem
    /\ InitUnlocked

\* DNSEngine.New: no server yet
NoServer == [cur |-> 0, made |-> 0, starting |-> {}, listening |-> {}, stops |-> <<>>,
             startedSince |-> FALSE]

InitIdle ==
    /\ pc = "idle"
    /\ req = <<>>
    /\ m = NoMsg
    /\ contacted = <<>>
    /\ upResp = NoResp
    /\ writes = <<>>
    /\ notify = FALSE
    /\ server = NoServer

\* the engine over every bounded snapshot, with the default upstream list
InitEngine ==
    /\ cDomains \in Snapshots
    /\ cUpstream = SubSeq(UpstreamAddrs, 1, 2)
    /\ InitIdle
    /\ cfgInDot = TRUE
    /\ faultsLeft = 0
    /\ InitStoreOn(cDomains)
    /\ InitNoRead

NextEngine ==
    \/ \E question \in Questions : HandleRequest(question)
    \/ LocalAnswer
    \/ Exchange
    \/ ForwardFailed
    \/ WriteMsg
    \/ Return

SpecEngine == InitEngine /\ [][NextEngine]_vars

ForwardSnapshots ==
    { TwoDomains(<<>>, 0), TwoDomains(<<Rec(WildT, "A", V4a, 300)>>, 1) }

\* the engine over every bounded upstream list
InitForward ==
    /\ cDomains \in ForwardSnapshots
    /\ \E n \in 0..MaxUpstreams : cUpstream = SubSeq(UpstreamAddrs, 1, n)
    /\ InitIdle
    /\ cfgInDot = TRUE
    /\ faultsLeft = 0
    /\ InitStoreOn(cDomains)
    /\ InitNoRead

SpecForward == InitForward /\ [][NextEngine]_vars

\* the engine up to the IsDomainConfigured decision of one request
NextDecide == \E question \in Questions : HandleRequest(question)

SpecDecide == InitEngine /\ [][NextDecide]_vars

Init ==
    /\ \E domains \in InitDocs :
          /\ cDomains = domains
          /\ InitStoreOn(domains)
    /\ cfgInDot \in BOOLEAN
    /\ faultsLeft = MaxFaultyCalls
    /\ cUpstream = SubSeq(UpstreamAddrs, 1, 2)
    /\ InitIdle
    /\ InitNoRead

Next ==
    \/ Load
    \/ \E domain \in StoreDomains : AddOrUpdateDomain(domain)
    \/ \E domainName \in StoreNames : DeleteDomain(domainName)
    \/ \E domainName \in StoreNames, record \in StoreRecords :
          AddRecord(domainName, record)
    \/ \E domainName \in StoreNames, recordName \in RecordNames,
          newRecord \in StoreRecords :
          UpdateRecord(domainName, recordName, newRecord)
    \/ \E domainName \in StoreNames, recordName \in RecordNames :
          DeleteRecord(domainName, recordName)
    \/ ReturnToCaller

Spec == Init /\ [][Next]_vars

(***************************************************************************)
(* Match on its own                                                        *)
(***************************************************************************)

StarAT == <<"*", "a", ".", "t">>
StarOnly == <<"*">>
StarDot == <<"*", ".">>
NameATDotDot == <<"a", ".", "t", ".", ".">>
NameXATUpper == <<"X", "A", ".", "T">>
WildTUpperDot == <<"*", ".", "T", ".">>
DotT == <<".", "t">>

MatchNames ==
    {NameAT, NameATDot, NameXAT, NameT, NameBU, WildT, NameATDotDot, NameXATUpper,
     DotT, <<>>}

MatchRules ==
    {NameAT, NameATDot, NameT, WildT, StarAT, StarOnly, StarDot, WildTUpperDot,
     NameATDotDot, <<>>}

\* a caller is about to call e.Match(qname, rule)
InitMatch ==
    /\ cDomains = <<>>
    /\ cUpstream = <<>>
    /\ InitIdle
    /\ cfgInDot = TRUE
    /\ faultsLeft = 0
    /\ file = Doc(<<>>, "nested")
    /\ dotFile = "absent"
    /\ vConfig = [domains |-> <<>>, shape |-> "nested"]
    /\ vOverride = NoOverride
    /\ domainMap = << >>
    /\ ret = NoCall
    /\ \E qname \in MatchNames, rule \in MatchRules :
          call = [fn |-> "Match", qname |-> qname, rule |-> rule]
    /\ result = NoRead
    /\ InitNoMem
    /\ InitUnlocked

\* e.Match(qname, rule) returns
CallMatch ==
    /\ call.fn = "Match"
    /\ result = NoRead
    /\ result' = [fn |-> "Match", value |-> Match(call.qname, call.rule)]
    /\ UNCHANGED <<call, domainMap, vOverride, vConfig, file, dotFile, cfgInDot,
                   faultsLeft, ret>>
    /\ UNCHANGED memVars
    /\ UNCHANGED lockVars
    /\ UNCHANGED engineVars

NextMatch == CallMatch

SpecMatch == InitMatch /\ [][NextMatch]_vars

(***************************************************************************)
(* ListDomainsWithPagination on its own                                    *)
(***************************************************************************)

MaxPageDomains == 3

PageNames == {<<"d">>, <<"D">>, <<"e">>, <<"a">>}

\* the records of the domain of each name: zero, one or two of them
PageRecords(n) ==
    CASE n = <<"d">> -> <<>>
      [] n = <<"e">> -> <<Rec(NameAT, "A", V4a, 300), Rec(WildT, "TXT", HostT, 300)>>
      [] OTHER -> <<Rec(NameAT, "A", V4a, 300)>>

PageMaps ==
    { [n \in S |-> PageRecords(n)] :
        S \in {T \in SUBSET PageNames : Cardinality(T) <= MaxPageDomains} }

\* 2^62 + 1
HugePage == <<1, 0, 0, 16384>>

Pages == {GoInt(0), MinusOne, GoInt(1), GoInt(2), GoInt(3), GoInt(4), HugePage, MaxInt}

PageSizes == {-1, 0, 1, 2, 100, 101}

\* a store holding some domains, and a caller about to list a page of them
InitPages ==
    /\ \E dm \in PageMaps :
          \E domains \in Orderings(dm) :
              /\ cDomains = domains
              /\ InitStoreOn(domains)
    /\ cUpstream = <<>>
    /\ InitIdle
    /\ cfgInDot = TRUE
    /\ faultsLeft = 0
    /\ \E page \in Pages, pageSize \in PageSizes :
          call = [fn |-> "ListDomainsWithPagination", page |-> page,
                  pageSize |-> pageSize]
    /\ result = NoRead
    /\ InitNoMem
    /\ InitUnlocked

NextPages == CallListDomainsWithPagination

SpecPages == InitPages /\ [][NextPages]_vars

(***************************************************************************)
(* A caller that lists every page, one call after the other                *)
(***************************************************************************)

\* the page sizes of the caller; 101 is taken for 20 by the call
WalkSizes == {1, 2, 101}

\* the page size the call works with
EffectiveSize(pageSize) == IF pageSize < 1 \/ pageSize > 100 THEN 20 ELSE pageSize

\* ceil(total / pageSize)
PageCount(total, pageSize) ==
    (total + EffectiveSize(pageSize) - 1) \div EffectiveSize(pageSize)

\* the caller asks for the page after the ones it has; each call ranges
\* over the map and sorts again
ListNextPage ==
    /\ call.fn = "ListAllPages"
    /\ Len(result.pages) < PageCount(Cardinality(DOMAIN domainMap), call.pageSize)
    /\ \E r \in ListDomainsWithPagination(GoInt(Len(result.pages) + 1), call.pageSize) :
          /\ r.kind = "ok"
          /\ result' = [result EXCEPT !.pages = Append(@, r.domains)]
    /\ UNCHANGED <<call, domainMap, vOverride, vConfig, file, dotFile, cfgInDot,
                   faultsLeft, ret>>
    /\ UNCHANGED memVars
    /\ UNCHANGED lockVars
    /\ UNCHANGED engineVars

InitWalk ==
    /\ \E dm \in PageMaps :
          \E domains \in Orderings(dm) :
              /\ cDomains = domains
              /\ InitStoreOn(domains)
    /\ cUpstream = <<>>
    /\ InitIdle
    /\ cfgInDot = TRUE
    /\ faultsLeft = 0
    /\ \E pageSize \in WalkSizes : call = [fn |-> "ListAllPages", pageSize |-> pageSize]
    /\ result = [fn |-> "ListAllPages", pages |-> <<>>]
    /\ InitNoMem
    /\ InitUnlocked

NextWalk == ListNextPage

SpecWalk == InitWalk /\ [][NextWalk]_vars

(***************************************************************************)
(* The store with its backing arrays                                       *)
(***************************************************************************)

\* the records and the domains the calls are made with
MemRecords == {Rec(NameAT, "A", V4a, 300), Rec(NameAT, "A", V4b, 300)}

MemNames == {DomD}

MemDomains ==
    { [name |-> n, records |-> rs] :
        n \in MemNames \cup {<<>>}, rs \in SeqsUpTo(MemRecords, MaxRecords) }

\* the documents the process may be started on
MemDocs ==
    { <<>>,
      <<[name |-> DomD, records |-> <<Rec(NameAT, "A", V4a, 300)>>]>> }

\* Load gives every domain with records a backing array of its own
InitMem ==
    /\ \E domains \in MemDocs :
          /\ cDomains = domains
          /\ InitStoreOn(domains)
          /\ heap = [i \in 1..Len(domains) |-> domains[i].records]
          /\ refs = [n \in {domains[i].name : i \in 1..Len(domains)} |->
                       LET i == CHOOSE k \in 1..Len(domains) : domains[k].name = n
                       IN  Slice(i, Len(domains[i].records))]
    /\ cfgInDot = TRUE
    /\ faultsLeft = 0
    /\ cUpstream = <<>>
    /\ InitIdle
    /\ call = NoRead
    /\ result = NoRead
    /\ InitUnlocked

\* what a caller may store into a slice it holds
CallerValues ==
    CASE result.fn = "ListDomains" -> {NameBU}
      [] result.fn = "ListDomainsWithPagination" ->
             {[name |-> NameBU, record_count |-> MaxRecords]}
      [] OTHER -> MemRecords

\* the page sizes a caller asks for
MemPageSizes == {1, 20}

NextMem ==
    \/ \E domainName \in MemNames : GetDomain(domainName)
    \/ \E domainName \in MemNames : GetRecords(domainName)
    \/ ListDomains
    \/ \E pageSize \in MemPageSizes : ListFirstPage(pageSize)
    \/ \E i \in 1..MaxRecords, x \in CallerValues : CallerWrites(i, x)
    \/ \E x \in CallerValues : CallerAppends(x)
    \/ CallerTruncates
    \/ CallerDrops
    \/ \E domain \in MemDomains : AddOrUpdateDomainInMemory(domain)
    \/ \E domainName \in MemNames : DeleteDomainInMemory(domainName)
    \/ \E domainName \in MemNames, record \in MemRecords :
          AddRecordInMemory(domainName, record)
    \/ \E domainName \in MemNames, recordName \in {NameAT, NameBU},
          newRecord \in MemRecords :
          UpdateRecordInMemory(domainName, recordName, newRecord)
    \/ \E domainName \in MemNames, recordName \in {NameAT, NameBU} :
          DeleteRecordInMemory(domainName, recordName)
    \/ ReturnToCaller

SpecMem == InitMem /\ [][NextMem]_vars

(***************************************************************************)
(* Goroutines inside the store: every call as the steps it takes between   *)
(* locking and unlocking m.mu                                              *)
(***************************************************************************)

Goroutines == {1, 2}

\* a call of the store and its arguments
StoreCall(op, domainName, recordName, record, records) ==
    [op |-> op, domainName |-> domainName, recordName |-> recordName,
     record |-> record, records |-> records]

NoPlan == [err |-> "none", kind |-> "none", name |-> <<>>, records |-> <<>>]

Failing(err) == [NoPlan EXCEPT !.err = err]

Assign(name, records) == [NoPlan EXCEPT !.kind = "put", !.name = name, !.records = records]

\* what a mutating call, reading the map dm, decides to do to it: return an
\* error, assign dm[name], or delete the key
Plan(c, dm) ==
    CASE c.op = "AddOrUpdateDomain" -> Assign(c.domainName, c.records)
      [] c.op = "DeleteDomain" ->
            IF c.domainName \notin DOMAIN dm THEN Failing("notfound")
            ELSE [NoPlan EXCEPT !.kind = "delete", !.name = c.domainName]
      [] c.op = "AddRecord" ->
            IF c.domainName \notin DOMAIN dm THEN Failing("notfound")
            ELSE IF HasPair(dm[c.domainName], c.record) THEN Failing("duplicate")
            ELSE Assign(c.domainName, Append(dm[c.domainName], c.record))
      [] c.op = "UpdateRecord" ->
            IF c.domainName \notin DOMAIN dm THEN Failing("notfound")
            ELSE IF ~HasName(dm[c.domainName], c.recordName) THEN Failing("norecord")
            ELSE Assign(c.domainName,
                        ReplaceFirst(dm[c.domainName], c.recordName, c.record))
      [] c.op = "DeleteRecord" ->
            IF c.domainName \notin DOMAIN dm THEN Failing("notfound")
            ELSE IF ~HasName(dm[c.domainName], c.recordName) THEN Failing("norecord")
            ELSE Assign(c.domainName, WithoutName(dm[c.domainName], c.recordName))

\* "m.domainMap[name] = domain" and "delete(m.domainMap, name)"
Install(plan, dm) ==
    CASE plan.kind = "put" -> Put(dm, plan.name, plan.records)
      [] plan.kind = "delete" -> Remove(dm, plan.name)
      [] OTHER -> dm

\* the call c run alone on the map dm: the error it returns and the map it
\* leaves
RunAlone(c, dm) ==
    IF c.op = "AddOrUpdateDomain" /\ c.domainName = <<>>
    THEN [err |-> "invalid", map |-> dm]
    ELSE [err |-> Plan(c, dm).err, map |-> Install(Plan(c, dm), dm)]

\* what a read-only call returns when it reads the map dm
ReadOf(c, dm) ==
    CASE c.op = "ListDomains" -> [err |-> "none", value |-> DOMAIN dm]
      [] OTHER -> IF c.domainName \in DOMAIN dm
                  THEN [err |-> "none", value |-> {dm[c.domainName]}]
                  ELSE [err |-> "notfound", value |-> {}]

Readers == {"GetDomain", "GetRecords", "ListDomains"}

\* a goroutine that is about to make the call c
Proc(c) == [c |-> c, pc |-> "start", plan |-> NoPlan, err |-> "none",
            out |-> [err |-> "none", value |-> {}], todo |-> <<>>, before |-> << >>]

\* sync.RWMutex: Lock waits until no goroutine holds the lock, RLock until
\* no writer holds it
CanLock_Always == TRUE

CanLock == mu.w = 0 /\ mu.r = {}

CanRLock_Always == TRUE

CanRLock == mu.w = 0

StoreIdle ==
    /\ UNCHANGED <<cfgInDot, faultsLeft, ret, call, result, memVars>>
    /\ UNCHANGED engineVars

\* AddOrUpdateDomain returns on an empty name before it locks
RejectName(g) ==
    /\ procs[g].pc = "start"
    /\ procs[g].c.op = "AddOrUpdateDomain"
    /\ procs[g].c.domainName = <<>>
    /\ procs' = [procs EXCEPT ![g].pc = "done", ![g].err = "invalid"]
    /\ UNCHANGED <<mu, domainMap, vOverride, vConfig, file, dotFile>>
    /\ StoreIdle

\* m.mu.Lock()
Lock(g) ==
    /\ procs[g].pc = "start"
    /\ procs[g].c.op \notin Readers
    /\ ~(procs[g].c.op = "AddOrUpdateDomain" /\ procs[g].c.domainName = <<>>)
    /\ CanLock
    /\ mu' = [mu EXCEPT !.w = g]
    /\ procs' = [procs EXCEPT ![g].pc = "locked", ![g].before = domainMap]
    /\ UNCHANGED <<domainMap, vOverride, vConfig, file, dotFile>>
    /\ StoreIdle

\* the reads and tests of a mutating call, up to the change it settles on
Decide(g) ==
    /\ procs[g].pc = "locked"
    /\ procs[g].c.op # "Load"
    /\ LET plan == Plan(procs[g].c, domainMap)
       IN  procs' = [procs EXCEPT ![g].plan = plan,
                                  ![g].err = plan.err,
                                  ![g].pc = IF plan.err = "none" THEN "decided"
                                            ELSE "unlock"]
    /\ UNCHANGED <<mu, domainMap, vOverride, vConfig, file, dotFile>>
    /\ StoreIdle

\* the write to the map
Write(g) ==
    /\ procs[g].pc = "decided"
    /\ domainMap' = Install(procs[g].plan, domainMap)
    /\ procs' = [procs EXCEPT ![g].pc = "written"]
    /\ UNCHANGED <<mu, vOverride, vConfig, file, dotFile>>
    /\ StoreIdle

\* return m.updateDomainsNode()
Persist(g) ==
    /\ procs[g].pc = "written"
    /\ \E domains \in Orderings(domainMap) :
          LET p == updateDomainsNode(domains, NoFault)
          IN  /\ file' = p.file
              /\ dotFile' = p.dotFile
              /\ vOverride' = p.vOverride
              /\ vConfig' = p.vConfig
              /\ procs' = [procs EXCEPT ![g].pc = "unlock", ![g].err = p.err]
    /\ UNCHANGED <<mu, domainMap>>
    /\ StoreIdle

\* Load up to "m.domainMap = make(...)": os.ReadFile, yaml.Unmarshal and
\* viper.UnmarshalKey
LoadRead(g) ==
    /\ procs[g].pc = "locked"
    /\ procs[g].c.op = "Load"
    /\ IF file.state # "ok"
       THEN procs' = [procs EXCEPT ![g].pc = "unlock", ![g].err = "load"]
       ELSE procs' = [procs EXCEPT ![g].pc = "make", ![g].todo = ViperDomains]
    /\ UNCHANGED <<mu, domainMap, vOverride, vConfig, file, dotFile>>
    /\ StoreIdle

\* m.domainMap = make(map[string]Domain, len(domains))
LoadMake(g) ==
    /\ procs[g].pc = "make"
    /\ domainMap' = << >>
    /\ procs' = [procs EXCEPT ![g].pc = "fill"]
    /\ UNCHANGED <<mu, vOverride, vConfig, file, dotFile>>
    /\ StoreIdle

\* one turn of "for _, domain := range domains", or its end
LoadInsert(g) ==
    /\ procs[g].pc = "fill"
    /\ IF procs[g].todo = <<>>
       THEN /\ procs' = [procs EXCEPT ![g].pc = "unlock"]
            /\ domainMap' = domainMap
       ELSE /\ domainMap' = Put(domainMap, Head(procs[g].todo).name,
                                Head(procs[g].todo).records)
            /\ procs' = [procs EXCEPT ![g].todo = Tail(procs[g].todo)]
    /\ UNCHANGED <<mu, vOverride, vConfig, file, dotFile>>
    /\ StoreIdle

\* the deferred m.mu.Unlock()
Unlock(g) ==
    /\ procs[g].pc = "unlock"
    /\ procs[g].c.op \notin Readers
    /\ mu' = [mu EXCEPT !.w = IF mu.w = g THEN 0 ELSE mu.w]
    /\ procs' = [procs EXCEPT ![g].pc = "done"]
    /\ UNCHANGED <<domainMap, vOverride, vConfig, file, dotFile>>
    /\ StoreIdle

\* m.mu.RLock()
RLock(g) ==
    /\ procs[g].pc = "start"
    /\ procs[g].c.op \in Readers
    /\ CanRLock
    /\ mu' = [mu EXCEPT !.r = mu.r \cup {g}]
    /\ procs' = [procs EXCEPT ![g].pc = "locked"]
    /\ UNCHANGED <<domainMap, vOverride, vConfig, file, dotFile>>
    /\ StoreIdle

\* the body of GetDomain, GetRecords or ListDomains
ReadMap(g) ==
    /\ procs[g].pc = "locked"
    /\ procs[g].c.op \in Readers
    /\ procs' = [procs EXCEPT ![g].out = ReadOf(procs[g].c, domainMap),
                              ![g].pc = "unlock"]
    /\ UNCHANGED <<mu, domainMap, vOverride, vConfig, file, dotFile>>
    /\ StoreIdle

\* the deferred m.mu.RUnlock()
RUnlock(g) ==
    /\ procs[g].pc = "unlock"
    /\ procs[g].c.op \in Readers
    /\ mu' = [mu EXCEPT !.r = mu.r \ {g}]
    /\ procs' = [procs EXCEPT ![g].pc = "done"]
    /\ UNCHANGED <<domainMap, vOverride, vConfig, file, dotFile>>
    /\ StoreIdle

(***************************************************************************)
(* Two goroutines in mutating calls                                        *)
(***************************************************************************)

RecA1 == Rec(NameAT, "A", V4a, 300)
RecA2 == Rec(NameAT, "A", V4b, 300)
RecTxt == Rec(WildT, "TXT", HostT, 300)

MutatingCalls ==
    {StoreCall("AddRecord", DomD, <<>>, r, <<>>) : r \in {RecA1, RecA2, RecTxt}}
      \cup {StoreCall("AddOrUpdateDomain", n, <<>>, ZeroRecord, <<RecTxt>>) :
              n \in {DomD, <<>>}}
      \cup {StoreCall("DeleteDomain", DomD, <<>>, ZeroRecord, <<>>),
            StoreCall("UpdateRecord", DomD, NameAT, RecTxt, <<>>),
            StoreCall("DeleteRecord", DomD, NameAT, ZeroRecord, <<>>)}

\* the documents the process was started on
SerialDocs ==
    { <<>>,
      <<[name |-> DomD, records |-> <<>>]>>,
      <<[name |-> DomD, records |-> <<RecA1>>]>> }

InitSerial ==
    /\ \E domains \in SerialDocs :
          /\ cDomains = domains
          /\ InitStoreOn(domains)
    /\ cfgInDot = TRUE
    /\ faultsLeft = 0
    /\ cUpstream = <<>>
    /\ InitIdle
    /\ call = NoRead
    /\ result = NoRead
    /\ InitNoMem
    /\ mu = [w |-> 0, r |-> {}]
    /\ \E c1, c2 \in MutatingCalls : procs = [g \in Goroutines |-> Proc(IF g = 1 THEN c1 ELSE c2)]

NextSerial ==
    \E g \in Goroutines :
        \/ RejectName(g)
        \/ Lock(g)
        \/ Decide(g)
        \/ Write(g)
        \/ Persist(g)
        \/ Unlock(g)

SpecSerial == InitSerial /\ [][NextSerial]_vars

(***************************************************************************)
(* Load beside a reader                                                    *)
(***************************************************************************)

ReadingCalls ==
    {StoreCall(op, n, <<>>, ZeroRecord, <<>>) :
        op \in {"GetDomain", "GetRecords"}, n \in {DomD, DomE}}
      \cup {StoreCall("ListDomains", <<>>, <<>>, ZeroRecord, <<>>)}

\* the documents viper has read
LoadDocs ==
    { <<[name |-> DomD, records |-> <<RecA1>>]>>,
      <<[name |-> DomD, records |-> <<RecA1>>], [name |-> DomE, records |-> <<RecTxt>>]>> }

\* Load is called at startup, on the empty map of NewViperYAMLManager, or
\* again later; the file may have been removed or damaged since viper read it
InitLoad ==
    /\ \E domains \in LoadDocs, loaded \in BOOLEAN :
          /\ cDomains = domains
          /\ vConfig = [domains |-> domains, shape |-> "nested"]
          /\ vOverride = NoOverride
          /\ domainMap = IF loaded THEN AsMap(domains) ELSE << >>
          /\ file \in {Doc(domains, "nested"), AbsentDoc, CorruptDoc}
    /\ dotFile = "absent"
    /\ ret = NoCall
    /\ cfgInDot = TRUE
    /\ faultsLeft = 0
    /\ cUpstream = <<>>
    /\ InitIdle
    /\ call = NoRead
    /\ result = NoRead
    /\ InitNoMem
    /\ mu = [w |-> 0, r |-> {}]
    /\ \E c \in ReadingCalls :
          procs = [g \in Goroutines |->
                     Proc(IF g = 1 THEN StoreCall("Load", <<>>, <<>>, ZeroRecord, <<>>)
                          ELSE c)]

NextLoad ==
    \E g \in Goroutines :
        \/ Lock(g)
        \/ LoadRead(g)
        \/ LoadMake(g)
        \/ LoadInsert(g)
        \/ Unlock(g)
        \/ RLock(g)
        \/ ReadMap(g)
        \/ RUnlock(g)

SpecLoad == InitLoad /\ [][NextLoad]_vars

(***************************************************************************)
(* One mutating call with known arguments on a known store                 *)
(***************************************************************************)

RecATxt == Rec(NameAT, "TXT", HostT, 60)
RecBU == Rec(NameBU, "A", V4a, 300)

\* the stores the call is made on
CallMaps ==
    { << >>,
      DomD :> <<RecA1>>,
      (DomD :> <<RecA1, RecATxt>>) @@ (DomE :> <<>>),
      (DomD :> <<RecA1>>) @@ (DomE :> <<RecTxt>>),
      DomD :> <<RecTxt, RecA1, RecBU>>,
      DomD :> <<RecA1, RecTxt, RecATxt>> }

MutatorCall(fn, domainName, recordName, record, records) ==
    [fn |-> fn, domainName |-> domainName, recordName |-> recordName,
     record |-> record, records |-> records]

CallInputs ==
    {MutatorCall("AddOrUpdateDomain", n, <<>>, ZeroRecord, rs) :
        n \in {<<>>, DomD, DomE}, rs \in {<<>>, <<RecTxt>>, <<RecA2, RecA2>>}}
      \cup {MutatorCall("DeleteDomain", n, <<>>, ZeroRecord, <<>>) : n \in {DomD, DomE}}
      \cup {MutatorCall("AddRecord", n, <<>>, r, <<>>) :
              n \in {DomD, DomE}, r \in {RecA2, RecTxt}}
      \cup {MutatorCall("UpdateRecord", DomD, n, r, <<>>) :
              n \in {NameAT, NameBU}, r \in {RecTxt, RecA2}}
      \cup {MutatorCall("DeleteRecord", d, n, ZeroRecord, <<>>) :
              d \in {DomD, DomE}, n \in {NameAT, WildT}}

\* the store holds one of the maps, persisted; the configuration file is
\* ./config.yaml or not; the call may meet an I/O failure or not
InitCalls ==
    /\ \E dm \in CallMaps :
          \E domains \in Orderings(dm) :
              /\ cDomains = domains
              /\ InitStoreOn(domains)
    /\ cfgInDot \in BOOLEAN
    /\ faultsLeft \in 0..MaxFaultyCalls
    /\ cUpstream = <<>>
    /\ InitIdle
    /\ call \in CallInputs
    /\ result = NoRead
    /\ InitNoMem
    /\ InitUnlocked

NextCalls ==
    \/ call.fn = "AddOrUpdateDomain"
         /\ AddOrUpdateDomain([name |-> call.domainName, records |-> call.records])
    \/ call.fn = "DeleteDomain" /\ DeleteDomain(call.domainName)
    \/ call.fn = "AddRecord" /\ AddRecord(call.domainName, call.record)
    \/ call.fn = "UpdateRecord"
         /\ UpdateRecord(call.domainName, call.recordName, call.record)
    \/ call.fn = "DeleteRecord" /\ DeleteRecord(call.domainName, call.recordName)

SpecCalls == InitCalls /\ [][NextCalls]_vars

(***************************************************************************)
(* Hot reload: viper's watcher, the store and the engine in one process    *)
(***************************************************************************)

\* whether fsnotify reports an event of the configuration file for what a
\* store call did: a write to it or its creation; the watcher drops the
\* events of other files of the directory
FileEvent(how, before, after) ==
    \/ how \in {"WriteConfig", "raw"}
    \/ how = "SafeWriteConfig" /\ cfgInDot
    \/ after # before

\* a mutating call of the store made while the watcher runs
WatchedCall(c) ==
    /\ LET r == RunAlone(c, domainMap)
       IN  IF r.err # "none"
           THEN /\ ret = NoCall
                /\ ret' = [Call(c.op) EXCEPT !.err = r.err]
                /\ UNCHANGED <<domainMap, vOverride, vConfig, file, dotFile, cfgInDot,
                               faultsLeft, notify>>
           ELSE /\ CommitStore(c.op, r.map)
                /\ notify' = (notify \/ FileEvent(ret'.how, file, file'))
    /\ UNCHANGED readVars
    /\ UNCHANGED queryVars
    /\ UNCHANGED server

\* somebody edits the domain list of the configuration file
EditFile(domains) ==
    /\ file' = Doc(domains, "nested")
    /\ notify' = TRUE
    /\ UNCHANGED <<domainMap, vOverride, vConfig, dotFile, cfgInDot, faultsLeft, ret>>
    /\ UNCHANGED readVars
    /\ UNCHANGED queryVars
    /\ UNCHANGED server

\* a reload that waits until no query is being handled
ReloadNotification_BetweenQueries ==
    /\ notify
    /\ pc = "idle"
    /\ notify' = FALSE
    /\ vConfig' = IF file.state = "ok"
                  THEN [domains |-> file.domains, shape |-> file.shape]
                  ELSE vConfig
    /\ cDomains' = IF vOverride.set THEN vOverride.domains ELSE vConfig'.domains
    /\ UNCHANGED <<domainMap, vOverride, file, dotFile, cfgInDot, faultsLeft, ret>>
    /\ UNCHANGED readVars
    /\ UNCHANGED <<cUpstream, pc, req, m, contacted, upResp, writes, server>>

\* the watcher goroutine handles the event: viper reads the file again
\* (keeping what it had when the file cannot be read), then the
\* OnConfigChange callback of WatchConfigChanges decodes viper's settings
\* into the Config the engine reads.  The value given to viper.Set shadows
\* the file's in the settings; the decoded list is taken to replace the
\* old one entirely.  No lock is taken.
ReloadNotification ==
    /\ notify
    /\ notify' = FALSE
    /\ vConfig' = IF file.state = "ok"
                  THEN [domains |-> file.domains, shape |-> file.shape]
                  ELSE vConfig
    /\ cDomains' = IF vOverride.set THEN vOverride.domains ELSE vConfig'.domains
    /\ UNCHANGED <<domainMap, vOverride, file, dotFile, cfgInDot, faultsLeft, ret>>
    /\ UNCHANGED readVars
    /\ UNCHANGED <<cUpstream, pc, req, m, contacted, upResp, writes, server>>

\* the documents the process was started on
ReloadDocs ==
    { <<[name |-> DomD, records |-> <<>>]>>,
      <<[name |-> DomD, records |-> <<RecA1>>]>> }

\* the domain lists written into the file by hand
EditedDocs ==
    { <<[name |-> DomD, records |-> <<RecA2>>]>>,
      <<[name |-> DomD, records |-> <<RecA1>>], [name |-> DomE, records |-> <<RecBU>>]>>,
      <<[name |-> DomE, records |-> <<RecBU>>]>> }

WatchedCalls ==
    { StoreCall("AddRecord", DomD, <<>>, RecTxt, <<>>),
      StoreCall("DeleteRecord", DomD, NameAT, ZeroRecord, <<>>),
      StoreCall("AddOrUpdateDomain", DomE, <<>>, ZeroRecord, <<RecBU>>),
      StoreCall("DeleteDomain", DomD, <<>>, ZeroRecord, <<>>) }

ReloadQuestions ==
    { <<>>, <<[name |-> NameAT, qtype |-> TypeA]>>, <<[name |-> NameBU, qtype |-> TypeA]>> }

InitReload ==
    /\ \E domains \in ReloadDocs :
          /\ cDomains = domains
          /\ InitStoreOn(domains)
    /\ cfgInDot = TRUE
    /\ faultsLeft = 0
    /\ cUpstream = <<>>
    /\ InitIdle
    /\ call = NoRead
    /\ result = NoRead
    /\ InitNoMem
    /\ InitUnlocked

NextReload ==
    \/ \E c \in WatchedCalls : WatchedCall(c)
    \/ ReturnToCaller
    \/ \E domains \in EditedDocs : EditFile(domains)
    \/ ReloadNotification
    \/ \E question \in ReloadQuestions : HandleRequest(question)
    \/ LocalAnswer
    \/ ForwardFailed
    \/ WriteMsg
    \/ Return

SpecReload == InitReload /\ [][NextReload]_vars

(***************************************************************************)
(* The engine's life cycle: Start and Stop                                 *)
(***************************************************************************)

MaxStarts == 2
MaxStops == 3

\* a dns.Server serves from the moment ListenAndServe has bound its socket
\* and set `started` until Shutdown clears it
Running == server.listening # {}

\* Start up to the call of ListenAndServe: a new dns.Server is assigned to
\* e.server, whatever the field held
StartCall ==
    /\ server.made < MaxStarts
    /\ server' = [server EXCEPT !.made = @ + 1,
                                !.cur = server.made + 1,
                                !.starting = @ \cup {server.made + 1},
                                !.startedSince = TRUE]
    /\ UNCHANGED notify
    /\ UNCHANGED queryVars
    /\ UNCHANGED storeVars

\* ListenAndServe of the server id: it binds the address and serves, or
\* returns the error of the bind (always, when a server of this process
\* holds the address)
ListenAndServe(id) ==
    /\ id \in server.starting
    /\ \E bound \in IF server.listening = {} THEN BOOLEAN ELSE {FALSE} :
          server' = [server EXCEPT !.starting = @ \ {id},
                                   !.listening = IF bound THEN @ \cup {id} ELSE @]
    /\ UNCHANGED notify
    /\ UNCHANGED queryVars
    /\ UNCHANGED storeVars

\* Stop: nil when e.server is nil, else what Shutdown of e.server returns:
\* the error "server not started" unless that server is serving, in which
\* case it stops serving.  The return is kept with whether the engine was
\* running at the call.
StopCall ==
    /\ Len(server.stops) < MaxStops
    /\ LET serving == server.cur \in server.listening
           err == server.cur # 0 /\ ~serving
       IN  server' = [server EXCEPT
                        !.listening = @ \ {server.cur},
                        !.stops = Append(@, [err |-> err, running |-> Running]),
                        !.startedSince = FALSE]
    /\ UNCHANGED notify
    /\ UNCHANGED queryVars
    /\ UNCHANGED storeVars

InitLife ==
    /\ cDomains = <<>>
    /\ InitStoreOn(<<>>)
    /\ cfgInDot = TRUE
    /\ faultsLeft = 0
    /\ cUpstream = <<>>
    /\ InitIdle
    /\ call = NoRead
    /\ result = NoRead
    /\ InitNoMem
    /\ InitUnlocked

NextLife ==
    \/ StartCall
    \/ \E id \in 1..MaxStarts : ListenAndServe(id)
    \/ StopCall

SpecLife == InitLife /\ [][NextLife]_vars

(***************************************************************************)
(* Properties of the resolution engine                                     *)
(***************************************************************************)

\* the positions <<domain, record>> of the snapshot
Positions ==
    UNION { {<<d, j>> : j \in 1..Len(cDomains[d].records)} : d \in 1..Len(cDomains) }

RecAt(p) == cDomains[p[1]].records[p[2]]

\* the request was one question and HandleRequest has finished with it
Answered == pc = "done" /\ Len(req) = 1

\* a uint32 TTL on the wire is the number t
TtlIs(ttl, t) == ttl.hi < 32768 /\ ttl.hi * 65536 + ttl.lo = t

\* the reply was built locally and carries exactly one answer, of the
\* queried name and type
LocallyAnsweredOnce ==
    /\ contacted = <<>>
    /\ upResp = NoResp
    /\ m.rcode = RcodeSuccess
    /\ Len(m.answer) = 1
    /\ m.answer[1].hdr.name = req[1].name
    /\ m.answer[1].hdr.rrtype = req[1].qtype

\* ... and that answer carries the given data
OneLocalAnswer(data) == LocallyAnsweredOnce /\ m.answer[1].data = data

NoDataReply ==
    /\ contacted = <<>>
    /\ upResp = NoResp
    /\ m.rcode = RcodeSuccess
    /\ m.answer = <<>>

\* record r is named exactly like the query name, up to case and one
\* trailing dot
SameName(r, qname) == Normalize(r.name) = Normalize(qname)

\* record r is a wildcard whose rule the query name satisfies
WildName(r, qname) == HasPrefix(r.name, Star) /\ Match(qname, r.name)

\* a record of the given type stands before position p in lookup order for
\* an exact match at p: any match in an earlier domain, or an exact match
\* earlier in p's domain
BeforeExact(p, qname, type) ==
    \E q \in Positions :
        /\ RecAt(q).type = type
        /\ \/ q[1] < p[1] /\ (SameName(RecAt(q), qname) \/ WildName(RecAt(q), qname))
           \/ q[1] = p[1] /\ q[2] < p[2] /\ SameName(RecAt(q), qname)

\* the same for a wildcard match at p: any match in an earlier domain, an
\* exact match anywhere in p's domain, or a wildcard match earlier in it
BeforeWild(p, qname, type) ==
    \E q \in Positions :
        /\ RecAt(q).type = type
        /\ \/ q[1] < p[1] /\ (SameName(RecAt(q), qname) \/ WildName(RecAt(q), qname))
           \/ q[1] = p[1] /\ q # p /\ SameName(RecAt(q), qname)
           \/ q[1] = p[1] /\ q[2] < p[2] /\ WildName(RecAt(q), qname)

\* the IPv4 literals in dotted form among the record values
DottedV4 == {V4a, V4b}

IsDotWildcard(r) == HasPrefix(r.name, <<"*", ".">>)

\* the suffix of a record named *.suffix, lower-cased, trailing dot stripped
SuffixOf(r) == SubSeq(Normalize(r.name), 3, Len(Normalize(r.name)))

EndsInSuffix(qname, r) == HasSuffix(Normalize(qname), SuffixOf(r))

\* the address an A or AAAA answer made from r carries
AddressOf(r) ==
    IF r.type = "A" THEN To4(ParseIP(r.value)) ELSE To16(ParseIP(r.value))

\* C2 as stated: a wildcard A or AAAA record *.suffix answers every query
\* of its type whose normalized name ends in the suffix; for a wildcard
\* CNAME or TXT record that a query of its type matches only by suffix the
\* reply is success with zero answers.
C2_AsStated ==
    Answered =>
        \A p \in Positions :
            ( /\ IsDotWildcard(RecAt(p))
              /\ ExactTypeMatch(RecAt(p).type, req[1].qtype)
              /\ EndsInSuffix(req[1].name, RecAt(p)) ) =>
                IF RecAt(p).type \in {"A", "AAAA"}
                THEN LocallyAnsweredOnce
                ELSE ~SameName(RecAt(p), req[1].name) => NoDataReply

\* C2 amended: a wildcard A or AAAA record *.suffix whose value is an IP
\* literal with the address form of its type answers every query of its
\* type whose normalized name ends in ".suffix", unless a record of that
\* type matching the name stands before it in lookup order; for a wildcard
\* CNAME or TXT record that a query of its type matches only by that suffix
\* the reply is success with zero answers, unless a record of that type is
\* named exactly like the query.
C2_WildcardAnswersAddressTypesOnly ==
    Answered =>
        \A p \in Positions :
            ( /\ IsDotWildcard(RecAt(p))
              /\ ExactTypeMatch(RecAt(p).type, req[1].qtype)
              /\ HasSuffix(Normalize(req[1].name), Dot \o SuffixOf(RecAt(p))) ) =>
                IF RecAt(p).type \in {"A", "AAAA"}
                THEN ( /\ ParseIP(RecAt(p).value).ok
                       /\ AddressOf(RecAt(p)) # <<>>
                       /\ ~BeforeWild(p, req[1].name, RecAt(p).type) ) =>
                          OneLocalAnswer(AddressOf(RecAt(p)))
                ELSE ( \A q \in Positions :
                          ~(/\ SameName(RecAt(q), req[1].name)
                            /\ RecAt(q).type = RecAt(p).type) ) =>
                          NoDataReply

\* a finished AAAA query answered from a wildcard record by suffix, and in
\* the same snapshot a wildcard CNAME record
C2_Witness ==
    /\ Answered
    /\ req[1] = [name |-> NameXAT, qtype |-> TypeAAAA]
    /\ OneLocalAnswer(V6a)
    /\ \E p \in Positions : RecAt(p).type = "CNAME" /\ IsDotWildcard(RecAt(p))

\* some record name of the snapshot matches the query name
NameConfigured(qname) == \E p \in Positions : Match(qname, RecAt(p).name)

\* C3: a finished query for a configured name for which FindRecord finds no
\* record of the requested type has response code success, zero answers,
\* and no upstream was contacted.
C3_ConfiguredNoRecordIsNoData ==
    ( /\ Answered
      /\ NameConfigured(req[1].name)
      /\ ~FindRecord(cDomains, req[1].name, req[1].qtype).found ) =>
        NoDataReply

\* a configured name queried for a type it has no record of
C3_Witness ==
    /\ Answered
    /\ req[1] = [name |-> NameAT, qtype |-> TypeTXT]
    /\ NameConfigured(NameAT)
    /\ ~FindRecord(cDomains, NameAT, TypeTXT).found
    /\ NoDataReply

\* ForwardRequest has been called and has returned
Forwarded == upResp # NoResp

Failed(k) == contacted[k].kind \in {"err", "nil"}

\* C4: the exchanges made for a request are with the upstreams 1, 2, ... in
\* list order, one per upstream; every exchange before the last one failed;
\* once an exchange yields a message, ForwardRequest returns that upstream's
\* message, no further exchange is made, and the reply carries the
\* message's answer, authority and additional sections and response code.
C4_ForwardInOrderUntilFirstMessage ==
    /\ Len(contacted) <= Len(cUpstream)
    /\ \A k \in 1..Len(contacted) : contacted[k].i = k
    /\ \A k \in 1..(Len(contacted) - 1) : Failed(k)
    /\ upResp.kind = "msg" =>
          /\ contacted # <<>>
          /\ contacted[Len(contacted)].kind = "msg"
    /\ (contacted # <<>> /\ contacted[Len(contacted)].kind = "msg") =>
          /\ pc \in {"write", "done"}
          /\ upResp.kind = "msg"
          /\ upResp.msg \in UpstreamMsgs(Len(contacted))
          /\ m.answer = upResp.msg.answer
          /\ m.ns = upResp.msg.ns
          /\ m.extra = upResp.msg.extra
          /\ m.rcode = upResp.msg.rcode

\* the first upstream failed and the second one answered
C4_Witness ==
    /\ pc = "done"
    /\ Len(contacted) = 2
    /\ contacted[1].kind = "err"
    /\ contacted[2].kind = "msg"
    /\ m.answer = <<[from |-> 2]>>

\* C5: when a query is forwarded and no exchange yields a message, every
\* upstream of the list was tried exactly once, the reply has response code
\* server-failure, recursion-available false and no answer, and it is
\* written: the loop cannot go on once the list is exhausted.
C5_AllUpstreamsFailedIsServFail ==
    /\ ( /\ pc \in {"write", "done"}
         /\ Len(req) = 1
         /\ ~NameConfigured(req[1].name)
         /\ \A k \in 1..Len(contacted) : Failed(k) ) =>
            /\ Len(contacted) = Len(cUpstream)
            /\ \A k \in 1..Len(contacted) : contacted[k].i = k
            /\ upResp = [kind |-> "error"]
            /\ m.rcode = RcodeServerFailure
            /\ ~m.ra
            /\ m.answer = <<>>
            /\ pc = "done" => Len(writes) = 1
    /\ (pc = "forward" /\ Len(contacted) = Len(cUpstream)) =>
            ENABLED ForwardFailed /\ ~ENABLED Exchange
    /\ pc = "write" => ENABLED WriteMsg

\* both upstreams failed, one with an error and one with a nil message
C5_Witness ==
    /\ pc = "done"
    /\ Len(cUpstream) = 2
    /\ Len(contacted) = 2
    /\ contacted[1].kind = "err"
    /\ contacted[2].kind = "nil"
    /\ m.rcode = RcodeServerFailure
    /\ ~m.ra
    /\ Len(writes) = 1

LocalTypes == {TypeA, TypeAAAA, TypeCNAME, TypeTXT}

\* C6 as stated: a query whose name is not configured is forwarded, and so
\* is a query whose type is none of A, AAAA, CNAME, TXT, whatever its name.
C6_AsStated ==
    (Answered /\ (~NameConfigured(req[1].name) \/ req[1].qtype \notin LocalTypes)) =>
        Forwarded

\* C6 amended: a query whose name is not configured is forwarded, whatever
\* its type; a query of another type than A, AAAA, CNAME, TXT for a
\* configured name is not forwarded: its reply is success with zero answers.
C6_UnconfiguredNamesAreForwarded ==
    Answered =>
        /\ ~NameConfigured(req[1].name) => Forwarded /\ Len(contacted) <= Len(cUpstream)
        /\ (NameConfigured(req[1].name) /\ req[1].qtype \notin LocalTypes) => NoDataReply

\* a query of another type for a name that is not configured, forwarded
C6_Witness ==
    /\ Answered
    /\ req[1] = [name |-> NameBU, qtype |-> 15]
    /\ cDomains[1].records # <<>>
    /\ Forwarded
    /\ contacted # <<>>


(***************************************************************************)
(* Properties of the record store                                          *)
(***************************************************************************)

\* nothing of the store, of viper's view or of the files changes in the step
StoreUntouched ==
    /\ domainMap' = domainMap
    /\ file' = file
    /\ dotFile' = dotFile
    /\ vOverride' = vOverride
    /\ vConfig' = vConfig

\* records holds a record with the name and type of record
SamePairIn(records, record) ==
    \E i \in 1..Len(records) :
        records[i].name = record.name /\ records[i].type = record.type

\* the step appends record to domain d and changes no other domain
AppendedTo(d, record) ==
    /\ DOMAIN domainMap' = DOMAIN domainMap
    /\ domainMap'[d] = domainMap[d] \o <<record>>
    /\ \A n \in DOMAIN domainMap \ {d} : domainMap'[n] = domainMap[n]

\* C7 as stated: AddRecord on an existing domain that holds a record of the
\* same name and type fails with a conflict error and changes nothing;
\* otherwise it succeeds and the record is appended after the existing
\* records.
C7_AsStated ==
    [][ \A d \in StoreNames, record \in StoreRecords :
          (d \in DOMAIN domainMap /\ AddRecord(d, record)) =>
              IF SamePairIn(domainMap[d], record)
              THEN ret'.err = "conflict" /\ StoreUntouched
              ELSE ret'.err = "none" /\ AppendedTo(d, record) ]_vars

\* C7 amended: AddRecord on an existing domain that holds a record of the
\* same name and type fails with a conflict error and changes nothing;
\* otherwise the record is appended after the existing records, and the
\* call succeeds unless writing or re-reading the document fails, in which
\* case it returns that error and the record stays appended in memory.
C7_AddRecordConflictOrAppend ==
    [][ \A d \in StoreNames, record \in StoreRecords :
          (d \in DOMAIN domainMap /\ AddRecord(d, record)) =>
              IF SamePairIn(domainMap[d], record)
              THEN ret'.err = "conflict" /\ StoreUntouched
              ELSE /\ AppendedTo(d, record)
                   /\ ret'.err \in {"none", "persist", "read"}
                   /\ ret'.err = "persist" <=> ret'.how = "failed" ]_vars

\* an AddRecord call has just been refused for a conflict, on a domain that
\* holds the record it was given
C7_Witness ==
    /\ ret.op = "AddRecord"
    /\ ret.err = "conflict"
    /\ DomD \in DOMAIN domainMap
    /\ domainMap[DomD] = <<Rec(NameAT, "A", V4a, 300)>>

\* the domain holds no record of that name
NoRecordNamed(d, recordName) ==
    \A i \in 1..Len(domainMap[d]) : domainMap[d][i].name # recordName

\* C8: AddOrUpdateDomain with an empty name, DeleteDomain, AddRecord,
\* UpdateRecord and DeleteRecord on an absent domain, and UpdateRecord and
\* DeleteRecord on a record name the domain does not hold, return an error,
\* leave the domain map unchanged and write nothing.
C8_RejectedCallsChangeNothing ==
    [][ /\ \A domain \in StoreDomains :
              (domain.name = <<>> /\ AddOrUpdateDomain(domain)) =>
                  ret'.err = "validation" /\ ret'.how = "none" /\ StoreUntouched
        /\ \A d \in StoreNames :
              ( /\ d \notin DOMAIN domainMap
                /\ \/ DeleteDomain(d)
                   \/ \E record \in StoreRecords : AddRecord(d, record)
                   \/ \E n \in RecordNames, record \in StoreRecords :
                          UpdateRecord(d, n, record)
                   \/ \E n \in RecordNames : DeleteRecord(d, n) ) =>
                  ret'.err = "notfound" /\ ret'.how = "none" /\ StoreUntouched
        /\ \A d \in StoreNames, n \in RecordNames :
              ( /\ d \in DOMAIN domainMap
                /\ NoRecordNamed(d, n)
                /\ \/ \E record \in StoreRecords : UpdateRecord(d, n, record)
                   \/ DeleteRecord(d, n) ) =>
                  ret'.err = "notfound" /\ ret'.how = "none" /\ StoreUntouched ]_vars

\* a DeleteRecord call has just been refused, on a store that holds records
\* and after a write has gone through
C8_Witness ==
    /\ ret.op = "DeleteRecord"
    /\ ret.err = "notfound"
    /\ vOverride.set
    /\ \E d \in DOMAIN domainMap : domainMap[d] # <<>>

\* C9 as stated: no domain of the store holds two records with the same
\* name and type.
C9_AsStated ==
    \A d \in DOMAIN domainMap :
        \A i, j \in 1..Len(domainMap[d]) :
            ( /\ domainMap[d][i].name = domainMap[d][j].name
              /\ domainMap[d][i].type = domainMap[d][j].type ) => i = j

Mutators ==
    {"AddOrUpdateDomain", "DeleteDomain", "AddRecord", "UpdateRecord", "DeleteRecord"}

\* C10 as stated: when a mutating call has returned success, the document
\* at the configuration path lists exactly the domains of the domain map,
\* each with the map's records in the map's order.
C10_AsStated ==
    (ret.op \in Mutators /\ ret.err = "none") =>
        /\ file.state = "ok"
        /\ Len(file.domains) = Cardinality(DOMAIN domainMap)
        /\ \A i \in 1..Len(file.domains) :
              /\ file.domains[i].name \in DOMAIN domainMap
              /\ file.domains[i].records = domainMap[file.domains[i].name]
        /\ \A n \in DOMAIN domainMap :
              \E i \in 1..Len(file.domains) : file.domains[i].name = n

\* the document lists exactly the domains of the map, each with the map's
\* records in the map's order
DocEqualsMap(doc, dm) ==
    /\ doc.state = "ok"
    /\ Len(doc.domains) = Cardinality(DOMAIN dm)
    /\ \A n \in DOMAIN dm :
          \E i \in 1..Len(doc.domains) :
              doc.domains[i].name = n /\ doc.domains[i].records = dm[n]

\* C11 as stated: when a mutating call has returned a persistence error,
\* the domain map equals the domain list of the document at the
\* configuration path.
C11_AsStated ==
    (ret.op \in Mutators /\ ret.err \in {"persist", "read"}) =>
        DocEqualsMap(file, domainMap)

\* C12 as stated: a Load that follows a successful mutating call succeeds,
\* rebuilds the domain map held before it, and that map equals the domain
\* list of the document on disk.
C12_AsStated ==
    [][ (ret.op \in Mutators /\ ret.err = "none" /\ Load) =>
            /\ ret'.err = "none"
            /\ domainMap' = domainMap
            /\ DocEqualsMap(file', domainMap') ]_vars

\* C13 as stated: when a mutating call has completed a write of the
\* document at the configuration path, by whichever strategy, the sections
\* other than the domain list are the ones the document held at start.
C13_AsStated ==
    (ret.op \in Mutators /\ ret.how # "failed" /\ file.state = "ok") =>
        SectionsOf(file) = Sections


(***************************************************************************)
(* Properties of FindRecord and Match                                      *)
(***************************************************************************)

\* HandleRequest took the local branch and FindRecord has been called
LookedUp ==
    /\ pc \in {"write", "done"}
    /\ Len(req) = 1
    /\ upResp = NoResp
    /\ NameConfigured(req[1].name)

\* C19 as stated: when FindRecord returns a record that matches the query
\* name as a wildcard only, no record of any domain has exactly the query
\* name (lower-cased, trailing dot stripped) and the requested type.
C19_AsStated ==
    LookedUp =>
        LET record == FindRecord(cDomains, req[1].name, req[1].qtype)
        IN  (record.found /\ Normalize(record.name) # Normalize(req[1].name)) =>
                \A p \in Positions :
                    ~( /\ Normalize(RecAt(p).name) = Normalize(req[1].name)
                       /\ ExactTypeMatch(RecAt(p).type, req[1].qtype) )

\* x ends with the characters of suf
EndsWith(x, suf) ==
    /\ Len(suf) <= Len(x)
    /\ \A k \in 1..Len(suf) : x[Len(x) - Len(suf) + k] = suf[k]

\* C20: Match(qname, rule), both lower-cased and stripped of one trailing
\* dot, is true exactly when the two are equal or rule starts with "*" and
\* qname ends with the characters of rule after the "*"; the test is on
\* characters: *a.t matches xa.t, *.t does not match t, and a rule without
\* leading "*" matches by equality only.
C20_MatchIsEqualityOrCharacterSuffix ==
    result.fn = "Match" =>
        LET q == ToLower(TrimSuffix(call.qname, Dot))
            r == ToLower(TrimSuffix(call.rule, Dot))
        IN  /\ result.value =
                  ( \/ q = r
                    \/ /\ r # <<>>
                       /\ r[1] = "*"
                       /\ EndsWith(q, SubSeq(r, 2, Len(r))) )
            /\ (call.qname = NameXAT /\ call.rule = StarAT) => result.value
            /\ (call.qname = NameT /\ call.rule = WildT) => ~result.value
            /\ (r = <<>> \/ r[1] # "*") => (result.value <=> q = r)

\* Match has returned true for xa.t against *a.t, a suffix that starts
\* inside a label
C20_Witness ==
    /\ result = [fn |-> "Match", value |-> TRUE]
    /\ call.qname = NameXAT
    /\ call.rule = StarAT


(***************************************************************************)
(* Properties of ListDomainsWithPagination                                 *)
(***************************************************************************)

\* the page asked for is the first one: page < 1 is replaced by 1
FirstPage(page) == IsNegative(page) \/ page \in {GoInt(0), GoInt(1)}

\* the page number, for the pages below 2^30
SmallPage(page) == page[3] = 0 /\ page[4] = 0 /\ page[2] < 16384

\* the index in the sorted list at which the page starts, when the page
\* starts inside the list; else the length of the list
StartIndex(page, size, total) ==
    IF FirstPage(page) THEN 0
    ELSE IF ~SmallPage(page) THEN total
    ELSE IF ToNat(page) - 1 >= total THEN total
    ELSE IF (ToNat(page) - 1) * size >= total THEN total
    ELSE (ToNat(page) - 1) * size

Min(a, b) == IF a < b THEN a ELSE b

\* l lists every domain of the map once with its number of records, in
\* non-decreasing order of lower-cased name
SortedListing(l) ==
    /\ Len(l) = Cardinality(DOMAIN domainMap)
    /\ \A n \in DOMAIN domainMap :
          \E i \in 1..Len(l) :
              l[i] = [name |-> n, record_count |-> Len(domainMap[n])]
    /\ \A i, j \in 1..Len(l) :
          i < j => ~StringLess(ToLower(l[j].name), ToLower(l[i].name))

\* the value is the page of the sorted domain list that starts at index
\* `from` and has at most `size` elements
IsPage(value, from, size) ==
    /\ value.kind = "ok"
    /\ value.total = Cardinality(DOMAIN domainMap)
    /\ \E l \in [1..value.total -> { [name |-> n, record_count |-> Len(domainMap[n])] :
                                        n \in DOMAIN domainMap }] :
          /\ SortedListing(l)
          /\ value.domains = SubSeq(l, from + 1, Min(value.total, from + size))

\* C14 as stated: ListDomainsWithPagination(page, pageSize), with page < 1
\* replaced by 1 and pageSize outside 1..100 by 20, returns the number of
\* domains as total and, as domains, the elements at the indices from
\* (page-1)*pageSize up to min(total, page*pageSize) of the domain list
\* sorted by lower-cased name, each with its number of records; the call
\* changes nothing in the store.
C14_AsStated ==
    [][ CallListDomainsWithPagination =>
          /\ IsPage(result'.value,
                    StartIndex(call.page, EffectiveSize(call.pageSize),
                               Cardinality(DOMAIN domainMap)),
                    EffectiveSize(call.pageSize))
          /\ domainMap' = domainMap
          /\ file' = file ]_vars

\* C15 as stated: when the page asked for lies beyond the end of the domain
\* list, whatever the page size, also for pages so large that
\* (page-1)*pageSize exceeds the range of int, the call returns without
\* failure the number of domains as total and an empty domain list.
C15_AsStated ==
    ( /\ result.fn = "ListDomainsWithPagination"
      /\ StartIndex(call.page, EffectiveSize(call.pageSize),
                    Cardinality(DOMAIN domainMap)) = Cardinality(DOMAIN domainMap) ) =>
        /\ result.value.kind = "ok"
        /\ result.value.total = Cardinality(DOMAIN domainMap)
        /\ result.value.domains = <<>>


(***************************************************************************)
(* Properties of the values the store returns                              *)
(***************************************************************************)

AllDone == \A g \in Goroutines : procs[g].pc = "done"

\* the two calls have ended as if g1's had run first and g2's after it
AsIfInOrder(g1, g2) ==
    LET first == RunAlone(procs[g1].c, AsMap(cDomains))
        second == RunAlone(procs[g2].c, first.map)
    IN  /\ procs[g1].err = first.err
        /\ procs[g2].err = second.err
        /\ domainMap = second.map

BothAdd(d) ==
    \A g \in Goroutines : procs[g].c.op = "AddRecord" /\ procs[g].c.domainName = d

SamePair(r1, r2) == r1.name = r2.name /\ r1.type = r2.type

C17_WitnessSamePair ==
    /\ AllDone
    /\ procs[1].c = StoreCall("AddRecord", DomD, <<>>, RecA1, <<>>)
    /\ procs[2].c = StoreCall("AddRecord", DomD, <<>>, RecA2, <<>>)
    /\ procs[1].err = "duplicate"
    /\ procs[2].err = "none"
    /\ domainMap = (DomD :> <<RecA2>>)

\* the map Load found and the map it builds
PriorMap == IF procs[1].pc = "start" THEN domainMap ELSE procs[1].before

LoadedMap == IF file.state = "ok" THEN AsMap(ViperDomains) ELSE PriorMap

\* C18: a GetDomain, GetRecords or ListDomains concurrent with Load returns
\* what it would return on the map Load found or on the map Load builds,
\* never on a partly built one; a Load that has failed has left the domain
\* map as it found it, and one that has succeeded has left the map it builds.
C18_LoadIsAtomicForReaders ==
    /\ procs[2].pc \in {"unlock", "done"} =>
          procs[2].out \in {ReadOf(procs[2].c, PriorMap), ReadOf(procs[2].c, LoadedMap)}
    /\ procs[1].pc = "done" =>
          /\ procs[1].err = "load" <=> file.state # "ok"
          /\ domainMap = LoadedMap

\* a reader has waited while Load was filling the map and has then read
\* the two domains of the new map
C18_Witness ==
    /\ procs[2].pc = "done"
    /\ procs[2].c.op = "ListDomains"
    /\ procs[2].out.value = {DomD, DomE}
    /\ procs[1].before = << >>
    /\ procs[1].pc = "done"

\* a Load has failed on a store that held domains
C18_WitnessFailedLoad ==
    /\ procs[1].pc = "done"
    /\ procs[1].err = "load"
    /\ domainMap # << >>
    /\ procs[2].pc = "done"


(***************************************************************************)
(* Properties of single mutating calls                                     *)
(***************************************************************************)

\* the store as the call found it
Before == AsMap(cDomains)

Returned(fn) == ret.op = fn /\ ret.err = "none"

\* every domain other than d is as the call found it
OthersAsBefore(d) ==
    /\ DOMAIN domainMap \ {d} = DOMAIN Before \ {d}
    /\ \A n \in DOMAIN domainMap \ {d} : domainMap[n] = Before[n]

\* C23: after a successful AddOrUpdateDomain(domain) with a non-empty name the
\* store holds exactly the supplied record list under that name, whatever
\* the name held before; every other domain is as it was, and the set of
\* names is the former one with that name.
C23_AddOrUpdateDomainReplaces ==
    Returned("AddOrUpdateDomain") =>
        /\ call.domainName # <<>>
        /\ call.domainName \in DOMAIN domainMap
        /\ domainMap[call.domainName] = call.records
        /\ OthersAsBefore(call.domainName)
        /\ DOMAIN domainMap = DOMAIN Before \cup {call.domainName}

\* AddOrUpdateDomain has replaced two records of a domain by one other
\* record, beside another domain
C23_Witness ==
    /\ Returned("AddOrUpdateDomain")
    /\ Before = (DomD :> <<RecA1, RecATxt>>) @@ (DomE :> <<>>)
    /\ domainMap = (DomD :> <<RecTxt>>) @@ (DomE :> <<>>)

\* C24: after a successful UpdateRecord(domain, recordName, newRecord) the
\* domain holds as many records as before; newRecord stands at the position
\* of the first record that had the name recordName, whatever the types and
\* newRecord's name; every other position, and every other domain, is as it
\* was.
C24_UpdateRecordReplacesFirstByName ==
    Returned("UpdateRecord") =>
        /\ call.domainName \in DOMAIN Before
        /\ call.domainName \in DOMAIN domainMap
        /\ OthersAsBefore(call.domainName)
        /\ LET old == Before[call.domainName]
               new == domainMap[call.domainName]
           IN  /\ Len(new) = Len(old)
               /\ \E i \in 1..Len(old) :
                     /\ old[i].name = call.recordName
                     /\ \A j \in 1..(i - 1) : old[j].name # call.recordName
                     /\ new[i] = call.record
                     /\ \A j \in 1..Len(old) : j # i => new[j] = old[j]

\* UpdateRecord has turned the A record a.t into a TXT record of another
\* name, and the second record named a.t is still there
C24_Witness ==
    /\ Returned("UpdateRecord")
    /\ Before = (DomD :> <<RecA1, RecATxt>>) @@ (DomE :> <<>>)
    /\ domainMap = (DomD :> <<RecTxt, RecATxt>>) @@ (DomE :> <<>>)

\* the records of a list that do not have the name, in the order of the list
RECURSIVE Others(_, _)
Others(records, recordName) ==
    IF records = <<>> THEN <<>>
    ELSE (IF Head(records).name = recordName THEN <<>> ELSE <<Head(records)>>)
            \o Others(Tail(records), recordName)

\* C25: after a successful DeleteRecord(domain, recordName) the domain is
\* still present and holds no record named recordName, of any type; it
\* holds the other records it had, in their order; every other domain is as
\* it was.
C25_DeleteRecordRemovesEveryMatch ==
    Returned("DeleteRecord") =>
        /\ call.domainName \in DOMAIN Before
        /\ call.domainName \in DOMAIN domainMap
        /\ OthersAsBefore(call.domainName)
        /\ \E i \in 1..Len(Before[call.domainName]) :
              Before[call.domainName][i].name = call.recordName
        /\ \A i \in 1..Len(domainMap[call.domainName]) :
              domainMap[call.domainName][i].name # call.recordName
        /\ domainMap[call.domainName] = Others(Before[call.domainName], call.recordName)

\* DeleteRecord has removed the A record and the TXT record named a.t and
\* kept the record that stood between them
C25_Witness ==
    /\ Returned("DeleteRecord")
    /\ Before = (DomD :> <<RecA1, RecTxt, RecATxt>>)
    /\ domainMap = (DomD :> <<RecTxt>>)

\* the domain has become empty and is still there
C25_WitnessEmptied ==
    /\ Returned("DeleteRecord")
    /\ Before = (DomD :> <<RecA1>>)
    /\ domainMap = (DomD :> <<>>)

\* C28 as stated: a mutating call past its validation checks returns an
\* error only if all three write strategies failed, and a mutating call that
\* has returned an error has left the persisted document as it was.
C28_AsStated ==
    (ret.op \in Mutators /\ ret.err \notin {"none", "validation", "notfound", "conflict"}) =>
        /\ ret.how = "failed"
        /\ file = Doc(cDomains, "nested")


(***************************************************************************)
(* Properties of the response                                              *)
(***************************************************************************)

\* C27: HandleRequest attempts one response write per request, on every
\* path: no write has been attempted before the reply is complete, exactly
\* one has been when HandleRequest has returned, whether it failed or not,
\* and none can follow it; only a request with a question reaches the
\* lookup or an upstream, and the reply to a request without question is
\* the bare reply to it, with no upstream contacted.
C27_OneWritePerRequest ==
    /\ pc \in {"idle", "find", "forward", "write"} => writes = <<>>
    /\ pc = "done" => Len(writes) = 1 /\ ~ENABLED WriteMsg
    /\ pc \in {"find", "forward"} => Len(req) = 1
    /\ (pc \in {"write", "done"} /\ req = <<>>) =>
          /\ m = SetReply
          /\ contacted = <<>>
          /\ upResp = NoResp

\* the one write of a forwarded request whose upstreams all failed has
\* failed, and HandleRequest has returned
C27_Witness ==
    /\ pc = "done"
    /\ writes = <<FALSE>>
    /\ Len(req) = 1
    /\ Len(contacted) = 2
    /\ m.rcode = RcodeServerFailure

\* the write of the reply to a request without question has failed
C27_WitnessNoQuestion ==
    /\ pc = "done"
    /\ req = <<>>
    /\ writes = <<FALSE>>

\* the TTL on the wire is the record's ttl taken modulo 2^32
TtlWraps(ttl, t) ==
    IF t >= 0 THEN TtlIs(ttl, t)
    ELSE (ttl.hi - 65536) * 65536 + ttl.lo = t

\* the reply on the local path has at most one answer; the one it has
\* carries the queried name, the queried type, which is the type of the
\* record FindRecord returned
AtMostOneAnswer ==
    LET record == FindRecord(cDomains, req[1].name, req[1].qtype)
    IN  /\ Len(m.answer) <= 1
        /\ Len(m.answer) = 1 =>
              /\ record.found
              /\ m.answer[1].hdr.name = req[1].name
              /\ m.answer[1].hdr.rrtype = req[1].qtype
              /\ ExactTypeMatch(record.type, req[1].qtype)

C21_AsStated == (~notify /\ file.state = "ok") => cDomains = file.domains

\* C30 as stated: when the snapshot holds the document's domain list (its
\* hand-edited domains included), a mutating call that targets one domain
\* leaves every other domain of the document as it was
C30_AsStated ==
    [][\A c \in WatchedCalls :
          (WatchedCall(c) /\ ~notify /\ file.state = "ok" /\ cDomains = file.domains)
            => \A i \in 1..Len(file.domains) :
                  file.domains[i].name # c.domainName
                    => /\ file'.state = "ok"
                       /\ \E j \in 1..Len(file'.domains) :
                             file'.domains[j] = file.domains[i]]_vars

\* C26: the reload waits for no query: whenever an event is pending it can
\* be handled, whatever the position of the query being answered, and the
\* lookup of a query whose name was found configured reads the snapshot of
\* the moment of the lookup
C26_ReloadNotCoordinated ==
    [][/\ notify => ENABLED ReloadNotification
       /\ (pc = "find" /\ pc' = "write")
            => LET record == FindRecord(cDomains, req[1].name, req[1].qtype)
               IN  m'.answer = IF record.found
                                THEN Synthesize(record, req[1].name, req[1].qtype)
                                ELSE <<>>]_vars

\* a query found configured before the reload is about to be looked up in
\* a snapshot that does not configure its name
C26_Witness ==
    /\ pc = "find"
    /\ ~IsDomainConfigured(cDomains, req[1].name)

\* the response to such a query: an empty success, where the old snapshot
\* gives the record and the new one forwards
C26_WitnessResponse ==
    /\ pc = "write"
    /\ req = <<[name |-> NameAT, qtype |-> TypeA]>>
    /\ upResp = NoResp
    /\ m.answer = <<>>
    /\ cDomains = <<[name |-> DomE, records |-> <<RecBU>>]>>

(***************************************************************************)
(* Properties of the life cycle                                            *)
(***************************************************************************)

\* C22 as stated: a Stop called on an engine that is not running returns
\* without error, and once a Stop has returned the engine is not running
\* unless Start was called after it
C22_AsStated ==
    /\ \A i \in 1..Len(server.stops) :
          ~server.stops[i].running => ~server.stops[i].err
    /\ (server.stops # <<>> /\ ~server.startedSince) => ~Running

(***************************************************************************)
(* Properties of the address records                                       *)
(***************************************************************************)

\* the text of an IPv6 address holds a colon, that of an IPv4 address is
\* dotted decimal
IsIPv6Literal(v) == ParseIP(v).ok /\ \E i \in 1..Len(v) : v[i] = ":"
IsIPv4Literal(v) == ParseIP(v).ok /\ ~IsIPv6Literal(v)

\* C31 as stated: on the local path an A answer comes from a record whose
\* value is an IPv4 literal and an AAAA answer from one whose value is an
\* IPv6 literal; an address record whose value is not a literal of the
\* kind of its type leaves a success reply without answer
C31_AsStated ==
    LookedUp =>
        LET record == FindRecord(cDomains, req[1].name, req[1].qtype)
            wanted(v) == IF record.type = "A" THEN IsIPv4Literal(v) ELSE IsIPv6Literal(v)
        IN  (record.found /\ record.type \in {"A", "AAAA"} /\ ~wanted(record.value))
              => m.answer = <<>> /\ m.rcode = RcodeSuccess

(***************************************************************************)
(* Properties of the pages taken together                                  *)
(***************************************************************************)

\* the names on the pages the caller has, in the order received
RECURSIVE NamesOnPages(_)
NamesOnPages(pages) ==
    IF pages = <<>> THEN <<>>
    ELSE [i \in 1..Len(Head(pages)) |-> Head(pages)[i].name] \o NamesOnPages(Tail(pages))

\* C32 as stated: the pages 1..ceil(total/pageSize) of successive calls on
\* an unchanged store hold every domain exactly once
C32_AsStated ==
    (/\ call.fn = "ListAllPages"
     /\ Len(result.pages) = PageCount(Cardinality(DOMAIN domainMap), call.pageSize))
      => LET names == NamesOnPages(result.pages)
         IN  /\ \A n \in DOMAIN domainMap : \E i \in 1..Len(names) : names[i] = n
             /\ \A i, j \in 1..Len(names) : names[i] = names[j] => i = j

(***************************************************************************)
(* Properties of failover                                                  *)
(***************************************************************************)

\* C33: an exchange is followed by the next upstream only when it ended in
\* an error or a nil response; an exchange that yields a message, whatever
\* its response code, ends the loop, and the reply takes the message's
\* response code and sections and keeps recursion-available
C33_FailoverOnlyOnErrorOrNil ==
    [][(pc = "forward" /\ Len(contacted') = Len(contacted) + 1)
         => LET last == contacted'[Len(contacted')]
            IN  IF last.kind \in {"err", "nil"}
                THEN pc' = "forward" /\ m' = m
                ELSE /\ pc' = "write"
                     /\ upResp'.kind = "msg"
                     /\ m'.rcode = upResp'.msg.rcode
                     /\ m'.answer = upResp'.msg.answer
                     /\ m'.ns = upResp'.msg.ns
                     /\ m'.extra = upResp'.msg.extra
                     /\ m'.ra = m.ra]_vars

\* the first of two upstreams answered with server-failure; the reply
\* relays it and the second upstream was not tried
C33_Witness ==
    /\ pc = "done"
    /\ Len(cUpstream) = 2
    /\ Len(contacted) = 1
    /\ contacted[1].kind = "msg"
    /\ upResp.kind = "msg"
    /\ upResp.msg.rcode = RcodeServerFailure
    /\ m.rcode = RcodeServerFailure
    /\ m.ns = <<[soa |-> 1]>>
    /\ m.ra

(***************************************************************************)
(* FindRecord against IsDomainConfigured                                   *)
(***************************************************************************)

\* C34: on every snapshot, for every query name and type, a record that
\* FindRecord returns is the record of a name that IsDomainConfigured
\* accepts: the query is not forwarded past it
C34_FoundImpliesConfigured ==
    \A qname \in QNames, qtype \in QTypes :
        FindRecord(cDomains, qname, qtype).found => IsDomainConfigured(cDomains, qname)

\* a query that took the local branch and for which FindRecord returns a
\* wildcard record whose name is not the queried name
C34_Witness ==
    /\ pc = "find"
    /\ LET record == FindRecord(cDomains, req[1].name, req[1].qtype)
       IN  /\ record.found
           /\ HasPrefix(record.name, Star)
           /\ Normalize(record.name) # Normalize(req[1].name)

====
